---- MODULE Spec2Model ----
(***************************************************************************)
(* A model of mcp-prompt-engine: the template argument resolver            *)
(* (PromptsParser) and the hot-reloading prompt server (PromptsServer).    *)
(*                                                                         *)
(* Strings the code takes apart are modelled as sequences of tokens, so    *)
(* that HasSuffix, HasPrefix, TrimSuffix and concatenation are computed:   *)
(* the file name "_p.tmpl" is <<"_", "p", ".tmpl">>, the reference         *)
(* {{template "_p" .}} names <<"_", "p">>.                                  *)
(***************************************************************************)
EXTENDS Integers, Sequences, FiniteSets, TLC

VARIABLES
    promptsDir,         \* the prompts directory: file name -> file
    environ,            \* the process environment: name -> value
    enableJSONArgs,     \* ps.enableJSONArgs: caller arguments are decoded as JSON
    events,             \* the events fsnotify has queued for the watcher loop
    changes,            \* how many filesystem events the directory has seen
    mainPc,             \* where the main goroutine is (NewPromptsServer, ServeStdio)
    watcherOpen,        \* the fsnotify watcher exists and is not closed
    watcherPc,          \* where the watcher goroutine is
    listenerPc,         \* where the goroutine of the stdio server is
    cancelled,          \* the context of ServeStdio is cancelled
    tmplNew,            \* tmpl of the loadServerPrompts call in progress
    newServerPrompts,   \* newServerPrompts of the reloadPrompts call in progress
    mcpPrompts,         \* the prompts and handlers registered in the MCP server
    registeredPrompts,  \* ps.registeredPrompts
    before,             \* history: registry and registeredPrompts when the last reload began
    lastErr,            \* history: what the last finished reloadPrompts call returned
    lastChange,         \* history: the last change of the directory
    response,           \* the answer of the request the server has just served
    wTmpl,              \* resolver runs: the parsed template set handed to the resolver
    wResult,            \* resolver runs: what ExtractPromptArgumentsFromTemplate returned
    inflight            \* the prompts/get whose handler is looked up and not yet called

walkVars == <<wTmpl, wResult>>
fsVars == <<promptsDir, environ, enableJSONArgs, events, changes, lastChange>>
lifeVars == <<mainPc, watcherOpen, listenerPc, cancelled>>
reloadVars == <<watcherPc, tmplNew, newServerPrompts, mcpPrompts, registeredPrompts, before, lastErr>>
serverVars == <<fsVars, lifeVars, reloadVars, response>>
vars == <<serverVars, walkVars, inflight>>

----------------------------------------------------------------------------
(* String helpers over token sequences.                                    *)

templateExt == ".tmpl"

HasSuffix(s, suffix) == Len(s) > 0 /\ s[Len(s)] = suffix

HasPrefix(s, prefix) == Len(s) > 0 /\ s[1] = prefix

TrimSuffix(s, suffix) == IF HasSuffix(s, suffix) THEN SubSeq(s, 1, Len(s) - 1) ELSE s

\* a lower-casing that leaves every name as it is written
ToLowerKeep(s) == s

\* strings.ToLower on the identifiers the templates of the model use
ToLower(s) ==
    CASE s = "X" -> "x"
      [] s = "Date" -> "date"
      [] s = "isPremium" -> "ispremium"
      [] OTHER -> s

\* strings.ToUpper on the (lower-case) argument names of the model
ToUpper(s) ==
    CASE s = "x" -> "X"
      [] s = "y" -> "Y"
      [] s = "z" -> "Z"
      [] s = "w" -> "W"
      [] s = "ispremium" -> "ISPREMIUM"
      [] OTHER -> s

----------------------------------------------------------------------------
(* Parse trees (text/template/parse): a node is a record with a kind.      *)

NilNode == [kind |-> "nil"]
TextNode == [kind |-> "text"]
DotNode == [kind |-> "dot"]
StringNode(text) == [kind |-> "string", text |-> text]
IdentifierNode(ident) == [kind |-> "identifier", ident |-> ident]
FieldNode(ident) == [kind |-> "field", ident |-> ident]
VariableNode(ident) == [kind |-> "variable", ident |-> ident]
CommandNode(args) == [kind |-> "command", args |-> args]
PipeNode(cmds) == [kind |-> "pipe", IsAssign |-> FALSE, Decl |-> <<>>, cmds |-> cmds]
\* the pipeline of "$x := expr" (IsAssign false) or "$x = expr" (IsAssign true)
DeclPipe(isAssign, decl, cmds) ==
    [kind |-> "pipe", IsAssign |-> isAssign, Decl |-> decl, cmds |-> cmds]
ActionNode(pipe) == [kind |-> "action", pipe |-> pipe]
ListNode(nodes) == [kind |-> "list", nodes |-> nodes]
IfNode(pipe, list, elseList) == [kind |-> "if", pipe |-> pipe, list |-> list, elseList |-> elseList]
RangeNode(pipe, list, elseList) == [kind |-> "range", pipe |-> pipe, list |-> list, elseList |-> elseList]
WithNode(pipe, list, elseList) == [kind |-> "with", pipe |-> pipe, list |-> list, elseList |-> elseList]
TemplateNode(name, pipe) == [kind |-> "template", name |-> name, pipe |-> pipe]

\* {{.ident}}
FieldAction(ident) == ActionNode(PipeNode(<<CommandNode(<<FieldNode(ident)>>)>>))

\* the pipeline "." of {{template "name" .}}
DotPipe == PipeNode(<<CommandNode(<<DotNode>>)>>)

NoError == [kind |-> "no error"]
CycleError(chain) == [kind |-> "cyclic partial reference detected", chain |-> chain]
NotFoundError(name) == [kind |-> "referenced template not found", name |-> name]

\* template.Template.Lookup: the tree defined under that name, or nil
NilTemplate == [kind |-> "nil template"]
Lookup(tmpl, name) == IF name \in DOMAIN tmpl THEN tmpl[name] ELSE NilTemplate

builtInFields == {"date"}

\* the maps walkNodes shares along the whole walk, the error it returns, and the
\* roots of the referenced templates it has recursed into so far, in that order
WalkState(args, processed, err) ==
    [args |-> args, processed |-> processed, err |-> err, walked |-> <<>>]

Contains(path, name) == \E i \in 1..Len(path) : path[i] = name

\* a walk of if, range and with that leaves the else branch out
BranchesNoElse(node) == <<node.pipe, node.list>>

\* what walkNodes walks of an if, a range or a with, in this order
Branches(node) == <<node.pipe, node.list, node.elseList>>

\* a lookup that finds the referenced template but hands back a template without a body
LookupReferencedEmpty(tmpl, templateName) ==
    IF Lookup(tmpl, templateName) = NilTemplate /\
       (HasSuffix(templateName, templateExt) \/
        Lookup(tmpl, Append(templateName, templateExt)) = NilTemplate)
    THEN NilTemplate
    ELSE ListNode(<<>>)

\* the lookup of a referenced template: by name, then by name + extension
LookupReferenced(tmpl, templateName) ==
    IF Lookup(tmpl, templateName) = NilTemplate /\ ~HasSuffix(templateName, templateExt)
    THEN Lookup(tmpl, Append(templateName, templateExt))
    ELSE Lookup(tmpl, templateName)

\* a variable case that takes $x for a field named x
VariableArgsBoundName(node) == {ToLower(node.ident[2])}

\* what the VariableNode case adds to argsMap; the name of a variable is the tokens
\* "$" and the rest: $x is <<"$", "x">>, $x.name is <<"$", "x", "name">>
VariableArgs(node) ==
    LET fieldName == [i \in 1..Len(node.ident) |-> ToLower(node.ident[i])]
    IN  IF HasPrefix(fieldName, "$") \/ fieldName \in builtInFields THEN {}
        ELSE {fieldName}

\* a template call whose argument is not walked
TemplatePipeSkipped(node) == NilNode

\* the argument pipeline of a template call, walked after the referenced template
TemplatePipe(node) == node.pipe

\* a cycle check that sees only a template calling itself directly
IsCyclicDirectOnly(st, path, templateName) ==
    Len(path) > 0 /\ path[Len(path)] = templateName

\* a cycle check against every template walked so far, not against the path
IsCyclicVisited(st, path, templateName) == templateName \in st.processed

\* the cycle check of a template call: an ancestor on the path has this name
IsCyclic(st, path, templateName) == Contains(path, templateName)

RECURSIVE walkNodes(_, _, _, _), walkList(_, _, _, _)

\* walkNodes over the elements of a slice, stopping at the first error
walkList(nodes, st, tmpl, path) ==
    IF nodes = <<>> \/ st.err # NoError THEN st
    ELSE walkList(Tail(nodes), walkNodes(Head(nodes), st, tmpl, path), tmpl, path)

walkNodes(node, st, tmpl, path) ==
    IF st.err # NoError \/ node = NilNode THEN st
    ELSE CASE node.kind = "action" -> walkNodes(node.pipe, st, tmpl, path)
      [] node.kind \in {"if", "range", "with"} -> walkList(Branches(node), st, tmpl, path)
      [] node.kind = "list" -> walkList(node.nodes, st, tmpl, path)
      [] node.kind = "pipe" -> walkList(node.cmds, st, tmpl, path)
      [] node.kind = "command" -> walkList(node.args, st, tmpl, path)
      [] node.kind = "field" ->
            LET fieldName == ToLower(node.ident)
            IN  IF fieldName \in builtInFields THEN st
                ELSE [st EXCEPT !.args = @ \cup {fieldName}]
      [] node.kind = "variable" -> [st EXCEPT !.args = @ \cup VariableArgs(node)]
      [] node.kind = "template" ->
            IF IsCyclic(st, path, node.name)
            THEN [st EXCEPT !.err = CycleError(Append(path, node.name))]
            ELSE IF node.name \notin st.processed
            THEN LET marked == [st EXCEPT !.processed = @ \cup {node.name}]
                     referencedTemplate == LookupReferenced(tmpl, node.name)
                 IN  IF referencedTemplate = NilTemplate
                     THEN [marked EXCEPT !.err = NotFoundError(node.name)]
                     ELSE walkNodes(TemplatePipe(node),
                                    walkNodes(referencedTemplate,
                                              [marked EXCEPT !.walked =
                                                    Append(@, referencedTemplate)],
                                              tmpl, Append(path, node.name)),
                                    tmpl, path)
            ELSE walkNodes(TemplatePipe(node), st, tmpl, path)
      [] OTHER -> st

\* what ExtractPromptArgumentsFromTemplate returns: the keys of argsMap (the slice
\* holds each key once, in the unspecified order of Go's map iteration) or an error
ExtractResult(args, err) == [args |-> args, err |-> err]

TargetNotFound(templateName) == [kind |-> "template not found", name |-> templateName]

RECURSIVE WalkEvery(_, _, _)
WalkEvery(tmpl, names, st) ==
    IF names = {} THEN st
    ELSE LET name == CHOOSE n \in names : TRUE
         IN  WalkEvery(tmpl, names \ {name}, walkNodes(tmpl[name], st, tmpl, <<>>))

\* an extraction that walks every template of the set, whichever one is asked for
ExtractFromEveryTemplate(tmpl, templateName) ==
    LET st == WalkEvery(tmpl, DOMAIN tmpl, WalkState({}, {}, NoError))
    IN  IF st.err # NoError THEN ExtractResult({}, st.err)
        ELSE ExtractResult(st.args, NoError)

ExtractPromptArgumentsFromTemplate(tmpl, templateName) ==
    LET targetTemplate ==
            IF Lookup(tmpl, templateName) # NilTemplate THEN Lookup(tmpl, templateName)
            ELSE IF HasSuffix(templateName, templateExt) THEN NilTemplate
            ELSE Lookup(tmpl, Append(templateName, templateExt))
    IN  IF targetTemplate = NilTemplate
        THEN ExtractResult({}, TargetNotFound(templateName))
        ELSE LET st == walkNodes(targetTemplate, WalkState({}, {}, NoError), tmpl, <<>>)
             IN  IF st.err # NoError THEN ExtractResult({}, st.err)
                 ELSE ExtractResult(st.args, NoError)

----------------------------------------------------------------------------
(* The prompts directory and what a reload reads from it.                   *)

\* A file: whether its template syntax is malformed, its first line (as tokens),
\* the tree of its own text and the trees of the {{define}} blocks in it.
File(broken, firstLine, root, defines) ==
    [broken |-> broken, firstLine |-> firstLine, root |-> root, defines |-> defines]

NoDefines == [name \in {} |-> NilNode]

PartialP == <<"_", "p">>

\* {{/* d1 */}}\ntext {{.x}}
FileX == File(FALSE, <<"{{/*", "d1", "*/}}">>,
              ListNode(<<TextNode, FieldAction("x")>>), NoDefines)

\* {{- /* d1 */ -}}\n{{.x}} {{.y}} {{template "_p" .}}
FileXYP == File(FALSE, <<"{{- /*", "d1", "*/ -}}">>,
                ListNode(<<FieldAction("x"), FieldAction("y"), TemplateNode(PartialP, DotPipe)>>),
                NoDefines)

\* text {{.z}} {{template "b.tmpl" .}}
FileZB == File(FALSE, <<"text">>,
               ListNode(<<TextNode, FieldAction("z"),
                          TemplateNode(<<"b", templateExt>>, DotPipe)>>),
               NoDefines)

\* {{define "_p"}}{{.w}}{{end}}
FileDefP == File(FALSE, <<"{{define \"_p\"}}{{.w}}{{end}}">>,
                 ListNode(<<>>), [name \in {PartialP} |-> ListNode(<<FieldAction("w")>>)])

\* {{.x}} {{if}}
FileBroken == File(TRUE, <<"text">>, NilNode, NoDefines)

Contents == {FileX, FileXYP, FileZB, FileDefP, FileBroken}

FileNameA == <<"a", templateExt>>
FileNameB == <<"b", templateExt>>
FileNameP == <<"_", "p", templateExt>>
FileNameNotes == <<"notes", ".txt">>

\* the names os.ReadDir and the glob return, in their (sorted) order
FileOrder == <<FileNameP, FileNameA, FileNameB, FileNameNotes>>

TemplateFiles == {FileNameP, FileNameA, FileNameB}

ParseError(what, name) == [kind |-> "parse template glob", what |-> what, name |-> name]

\* what ParseDir returns: the template set or an error
ParseResult(tmpl, err) == [tmpl |-> tmpl, err |-> err]

NoTemplates == [name \in {} |-> NilNode]

\* Template.Parse of one file into the set: the file's own tree under the file name
\* and each {{define}} block under its name; a definition with an empty tree does
\* not replace an earlier one that has a tree
AddParseTree(tmpl, name, tree) ==
    IF name \in DOMAIN tmpl /\ tree = ListNode(<<>>) THEN tmpl
    ELSE [n \in DOMAIN tmpl \cup {name} |-> IF n = name THEN tree ELSE tmpl[n]]

RECURSIVE AddDefines(_, _, _)
AddDefines(tmpl, defines, names) ==
    IF names = {} THEN tmpl
    ELSE LET name == CHOOSE n \in names : TRUE
         IN  AddDefines(AddParseTree(tmpl, name, defines[name]), defines, names \ {name})

RECURSIVE ParseFiles(_, _, _)
ParseFiles(dir, i, tmpl) ==
    IF i > Len(FileOrder) THEN ParseResult(tmpl, NoError)
    ELSE LET name == FileOrder[i]
         IN  IF name \notin DOMAIN dir \/ ~HasSuffix(name, templateExt)
             THEN ParseFiles(dir, i + 1, tmpl)
             ELSE IF dir[name].broken
             THEN ParseResult(NoTemplates, ParseError("malformed template", name))
             ELSE ParseFiles(dir, i + 1,
                    AddDefines(AddParseTree(tmpl, name, dir[name].root),
                               dir[name].defines, DOMAIN dir[name].defines))

\* PromptsParser.ParseDir: ParseGlob over "*.tmpl"
ParseDir(dir) ==
    IF \A name \in DOMAIN dir : ~HasSuffix(name, templateExt)
    THEN ParseResult(NoTemplates, ParseError("pattern matches no files", <<>>))
    ELSE ParseFiles(dir, 1, NoTemplates)

DescriptionComments ==
    {<<"{{/*", "*/}}">>, <<"{{- /*", "*/}}">>, <<"{{/*", "*/ -}}">>, <<"{{- /*", "*/ -}}">>}

\* PromptsParser.ExtractPromptDescriptionFromFile on a file that can be read
ExtractPromptDescriptionFromFile(file) ==
    IF \E c \in DescriptionComments :
            HasPrefix(file.firstLine, c[1]) /\ HasSuffix(file.firstLine, c[2])
    THEN IF Len(file.firstLine) = 3 THEN file.firstLine[2] ELSE ""
    ELSE ""

\* a test that looks at the extension only
isTemplateFileAnyName(name) == HasSuffix(name, templateExt)

isTemplateFile(name) == HasSuffix(name, templateExt) /\ ~HasPrefix(name, "_")

LoadError(kind, name, cause) == [kind |-> kind, name |-> name, cause |-> cause]

\* the split of the arguments of a prompt by os.LookupEnv of the upper-case name
envArgsOf(args, env) ==
    [arg \in {a \in args : ToUpper(a) \in DOMAIN env} |-> env[ToUpper(arg)]]

\* a split that advertises every variable
promptArgsAll(args, env) == args

promptArgsOf(args, env) == {arg \in args : ToUpper(arg) \notin DOMAIN env}

\* the handler makeMCPHandler returns: the values the closure captures
makeMCPHandler(tmpl, templateName, description, envArgs) ==
    [tmpl |-> tmpl, templateName |-> templateName, description |-> description,
     envArgs |-> envArgs, enableJSONArgs |-> enableJSONArgs]

\* server.ServerPrompt{Prompt: mcp.NewPrompt(name, description, arguments), Handler}
ServerPrompt(promptName, description, promptArgs, handler) ==
    [Prompt |-> [Name |-> promptName, Description |-> description, Arguments |-> promptArgs],
     Handler |-> handler]

\* what loadServerPrompts returns: the prompts or an error
LoadResult(prompts, err) == [prompts |-> prompts, err |-> err]

RECURSIVE LoadFiles(_, _, _, _, _)
\* the loop of loadServerPrompts over the files of the directory
LoadFiles(tmpl, dir, env, i, serverPrompts) ==
    IF i > Len(FileOrder) THEN LoadResult(serverPrompts, NoError)
    ELSE LET name == FileOrder[i]
         IN  IF name \notin DOMAIN dir \/ ~isTemplateFile(name)
             THEN LoadFiles(tmpl, dir, env, i + 1, serverPrompts)
             ELSE IF Lookup(tmpl, name) = NilTemplate
             THEN LoadResult(<<>>, LoadError("template not found", name, NoError))
             ELSE LET description == ExtractPromptDescriptionFromFile(dir[name])
                      res == ExtractPromptArgumentsFromTemplate(tmpl, name)
                  IN  IF res.err # NoError
                      THEN LoadResult(<<>>, LoadError("extract prompt arguments", name, res.err))
                      ELSE LoadFiles(tmpl, dir, env, i + 1,
                             Append(serverPrompts,
                                ServerPrompt(TrimSuffix(name, templateExt), description,
                                    promptArgsOf(res.args, env),
                                    makeMCPHandler(tmpl, name, description,
                                                   envArgsOf(res.args, env)))))

\* loadServerPrompts after ParseDir: os.ReadDir and the loop over the files
LoadPrompts(tmpl, dir, env) == LoadFiles(tmpl, dir, env, 1, <<>>)

\* loadServerPrompts on one state of the directory
loadServerPrompts(dir, env) ==
    LET parsed == ParseDir(dir)
    IN  IF parsed.err # NoError
        THEN LoadResult(<<>>, LoadError("parse all prompts", <<>>, parsed.err))
        ELSE LoadPrompts(parsed.tmpl, dir, env)

\* MCPServer.DeletePrompts: the registry without the named prompts
DeletePrompts(prompts, names) ==
    [n \in DOMAIN prompts \ {names[i] : i \in 1..Len(names)} |-> prompts[n]]

\* an AddPrompts that stores only the first prompt of the call
AddPromptsFirstOnly(prompts, new) ==
    IF new = <<>> THEN prompts
    ELSE [n \in DOMAIN prompts \cup {new[1].Prompt.Name} |->
            IF n = new[1].Prompt.Name THEN new[1] ELSE prompts[n]]

\* MCPServer.AddPrompts: each prompt is stored under its name
AddPrompts(prompts, new) ==
    [n \in DOMAIN prompts \cup {new[i].Prompt.Name : i \in 1..Len(new)} |->
        IF \E i \in 1..Len(new) : new[i].Prompt.Name = n
        THEN new[CHOOSE i \in 1..Len(new) : new[i].Prompt.Name = n /\
                    \A j \in (i + 1)..Len(new) : new[j].Prompt.Name # n]
        ELSE prompts[n]]

\* a reloadPrompts that remembers only the name of its first prompt
PromptNamesFirstOnly(new) ==
    IF new = <<>> THEN <<>> ELSE <<new[1].Prompt.Name>>

\* the names reloadPrompts stores in ps.registeredPrompts
PromptNames(new) == [i \in 1..Len(new) |-> new[i].Prompt.Name]

NoPrompts == [name \in {} |-> NilNode]

----------------------------------------------------------------------------
(* Requests: what the MCP server answers from its registry.                 *)

\* the deepest nesting of template calls an execution may reach
maxExecDepth == 4

ExecResult(out, err) == [out |-> out, err |-> err]
ExecError(what, name) == [kind |-> "execute template", what |-> what, name |-> name]

NoValue == "<no value>"

\* the values of the data map (map[string]interface{}): a string, or what
\* json.Unmarshal decodes into an interface{}
StringValue(s) == [str |-> s]
BoolValue(b) == [bool |-> b]
NumberValue(n) == [num |-> n]
NullValue == [null |-> "nil"]
ArrayValue(items) == [items |-> items]
ObjectValue(fields) == [fields |-> fields]

\* how text/template prints a value of the data map
Printed(value) ==
    CASE "str" \in DOMAIN value -> value.str
      [] "bool" \in DOMAIN value -> (IF value.bool THEN "true" ELSE "false")
      [] "num" \in DOMAIN value -> ToString(value.num)
      [] "null" \in DOMAIN value -> NoValue
      [] "items" \in DOMAIN value -> "[...]"
      [] OTHER -> "map[...]"

RECURSIVE execNode(_, _, _, _, _), execList(_, _, _, _, _)

execList(nodes, tmpl, data, depth, acc) ==
    IF nodes = <<>> \/ acc.err # NoError THEN acc
    ELSE execList(Tail(nodes), tmpl, data, depth, execNode(Head(nodes), tmpl, data, depth, acc))

\* Template.ExecuteTemplate on the node kinds the files of the model hold: text is
\* copied, {{.field}} prints the value under exactly that key, {{template "n" .}}
\* executes the template defined under exactly that name
execNode(node, tmpl, data, depth, acc) ==
    IF acc.err # NoError \/ node = NilNode THEN acc
    ELSE CASE node.kind = "list" -> execList(node.nodes, tmpl, data, depth, acc)
      [] node.kind = "text" -> [acc EXCEPT !.out = Append(@, "text")]
      [] node.kind = "action" /\ node.pipe.cmds[1].args[1].kind = "field" ->
            LET ident == node.pipe.cmds[1].args[1].ident
            IN  [acc EXCEPT !.out = Append(@, IF ident \in DOMAIN data THEN Printed(data[ident])
                                              ELSE NoValue)]
      [] node.kind = "template" ->
            IF Lookup(tmpl, node.name) = NilTemplate
            THEN [acc EXCEPT !.err = ExecError("template not defined", node.name)]
            ELSE IF depth >= maxExecDepth
            THEN [acc EXCEPT !.err = ExecError("exceeded maximum template depth", node.name)]
            ELSE execNode(Lookup(tmpl, node.name), tmpl, data, depth + 1, acc)
      [] OTHER -> acc

ExecuteTemplate(tmpl, templateName, data) ==
    IF Lookup(tmpl, templateName) = NilTemplate
    THEN ExecResult(<<>>, ExecError("no template", templateName))
    ELSE execNode(Lookup(tmpl, templateName), tmpl, data, 0, ExecResult(<<>>, NoError))

Now == "2006-01-02 15:04:05"

\* what json.Unmarshal(value, &parsed) does with the strings a caller of the model
\* sends: the decoded value, or an error
Unmarshalled(parsed) == [ok |-> TRUE, parsed |-> parsed]
UnmarshalError == [ok |-> FALSE, parsed |-> NullValue]

Unmarshal(value) ==
    CASE value = "true" -> Unmarshalled(BoolValue(TRUE))
      [] value = "false" -> Unmarshalled(BoolValue(FALSE))
      [] value = "42" -> Unmarshalled(NumberValue(42))
      [] value = "null" -> Unmarshalled(NullValue)
      [] value = "[1, 2]" -> Unmarshalled(ArrayValue(<<NumberValue(1), NumberValue(2)>>))
      [] value = "{\"a\": 1}" -> Unmarshalled(ObjectValue([a |-> NumberValue(1)]))
      [] value = "\"Alice\"" -> Unmarshalled(StringValue("Alice"))
      [] OTHER -> UnmarshalError

\* a parseMCPArgs that never decodes
parseMCPArgsRaw(args, enableJSON, data) ==
    [key \in DOMAIN data \cup DOMAIN args |->
        IF key \in DOMAIN args THEN StringValue(args[key]) ELSE data[key]]

\* a parseMCPArgs that decodes whatever the mode is
parseMCPArgsDecoding(args, enableJSON, data) ==
    [key \in DOMAIN data \cup DOMAIN args |->
        IF key \in DOMAIN args
        THEN IF Unmarshal(args[key]).ok THEN Unmarshal(args[key]).parsed
             ELSE StringValue(args[key])
        ELSE data[key]]

\* parseMCPArgs: each argument is stored in data under its key, decoded when the
\* mode is on and json.Unmarshal returns no error, as the string sent otherwise
parseMCPArgs(args, enableJSON, data) ==
    [key \in DOMAIN data \cup DOMAIN args |->
        IF key \in DOMAIN args
        THEN IF enableJSON /\ Unmarshal(args[key]).ok THEN Unmarshal(args[key]).parsed
             ELSE StringValue(args[key])
        ELSE data[key]]

\* a handler that applies the environment defaults after the arguments of the caller
HandlerDataEnvLast(handler, arguments) ==
    LET parsed == parseMCPArgs(arguments, handler.enableJSONArgs,
                               [k \in {"date"} |-> StringValue(Now)])
    IN  [k \in DOMAIN parsed \cup DOMAIN handler.envArgs |->
            IF k \in DOMAIN handler.envArgs THEN StringValue(handler.envArgs[k])
            ELSE parsed[k]]

\* the data map the handler builds: date, then envArgs, then the arguments of the caller
HandlerData(handler, arguments) ==
    parseMCPArgs(arguments, handler.enableJSONArgs,
                 [k \in {"date"} \cup DOMAIN handler.envArgs |->
                    IF k \in DOMAIN handler.envArgs THEN StringValue(handler.envArgs[k])
                    ELSE StringValue(Now)])

\* a handler that executes the template set of the prompt registered now
CallHandlerRereads(handler, arguments) ==
    LET name == TrimSuffix(handler.templateName, templateExt)
        latest == IF name \in DOMAIN mcpPrompts THEN mcpPrompts[name].Handler ELSE handler
        res == ExecuteTemplate(latest.tmpl, handler.templateName,
                               HandlerData(handler, arguments))
    IN  [description |-> handler.description, text |-> res.out, err |-> res.err]

\* the function makeMCPHandler returns, applied to the arguments of a request
CallHandler(handler, arguments) ==
    LET data == HandlerData(handler, arguments)
        res == ExecuteTemplate(handler.tmpl, handler.templateName, data)
    IN  [description |-> handler.description, text |-> res.out, err |-> res.err]

PromptNotFound(name) == [kind |-> "prompt not found", name |-> name]

\* prompts/get: the handler registered under the name, or the not-found error
HandleGetPrompt(prompts, name, arguments) ==
    IF name \notin DOMAIN prompts
    THEN [description |-> "", text |-> <<>>, err |-> PromptNotFound(name)]
    ELSE CallHandler(prompts[name].Handler, arguments)

\* prompts/list: the prompts of the registry (name, description, arguments)
HandleListPrompts(prompts) == [n \in DOMAIN prompts |-> prompts[n].Prompt]

NoArguments == [k \in {} |-> ""]

----------------------------------------------------------------------------
(* The commands of the CLI: render, list and validate.                      *)

RECURSIVE AvailableFrom(_, _)
AvailableFrom(dir, i) ==
    IF i > Len(FileOrder) THEN <<>>
    ELSE (IF FileOrder[i] \in DOMAIN dir /\ isTemplateFile(FileOrder[i])
          THEN <<FileOrder[i]>> ELSE <<>>) \o AvailableFrom(dir, i + 1)

\* getAvailableTemplates: the sorted names of the template files that are no partials
getAvailableTemplates(dir) == AvailableFrom(dir, 1)

\* the name the render and validate commands look for: the extension is added
WithExt(templateName) ==
    IF HasSuffix(templateName, templateExt) THEN templateName
    ELSE Append(templateName, templateExt)

NoData == [k \in {} |-> NullValue]

\* what renderTemplate did: whether it built the data map, the map, what it wrote
RenderResult(ran, data, out, err) == [ran |-> ran, data |-> data, out |-> out, err |-> err]

\* renderTemplate: date, then the arguments of the command line, then the environment
\* for the template's variables that are not in the map yet
renderTemplate(dir, env, templateName, cliArgs, enableJSON) ==
    IF templateName = <<>>
    THEN RenderResult(FALSE, NoData, <<>>, LoadError("template name is required", <<>>, NoError))
    ELSE IF ~Contains(getAvailableTemplates(dir), WithExt(templateName))
    THEN RenderResult(FALSE, NoData, <<>>,
                      LoadError("template not found", WithExt(templateName), NoError))
    ELSE LET parsed == ParseDir(dir)
             res == ExtractPromptArgumentsFromTemplate(parsed.tmpl, WithExt(templateName))
             fromArgs == parseMCPArgs(cliArgs, enableJSON, [k \in {"date"} |-> StringValue(Now)])
             data == [k \in DOMAIN fromArgs \cup {a \in res.args : ToUpper(a) \in DOMAIN env} |->
                        IF k \in DOMAIN fromArgs THEN fromArgs[k]
                        ELSE StringValue(env[ToUpper(k)])]
             executed == ExecuteTemplate(parsed.tmpl, WithExt(templateName), data)
         IN  IF parsed.err # NoError
             THEN RenderResult(FALSE, NoData, <<>>,
                               LoadError("parse all prompts", <<>>, parsed.err))
             ELSE IF res.err # NoError
             THEN RenderResult(FALSE, NoData, <<>>,
                               LoadError("extract template arguments", WithExt(templateName),
                                         res.err))
             ELSE IF executed.err # NoError
             THEN RenderResult(TRUE, data, <<>>,
                               LoadError("execute template", WithExt(templateName),
                                         executed.err))
             ELSE RenderResult(TRUE, data, executed.out, NoError)

\* listTemplates without --verbose: the names it prints
listTemplates(dir) == getAvailableTemplates(dir)

\* the slices a map iteration over the keys can build: every order, each key once
RECURSIVE KeyOrders(_)
KeyOrders(keys) ==
    IF keys = {} THEN {<<>>}
    ELSE UNION {{<<k>> \o rest : rest \in KeyOrders(keys \ {k})} : k \in keys}

\* one template of the verbose listing: its name, its description and its variables
\* as strings.Join writes them, in the order of the slice
VerboseLine(templateName, description, variables, err) ==
    [name |-> templateName, description |-> description, variables |-> variables,
     err |-> err]

RECURSIVE VerboseFrom(_, _, _)
\* the loop of listTemplates --verbose over the templates left: the resolver builds
\* its slice by ranging over a map, so every order of the variables can be printed
VerboseFrom(dir, tmpl, available) ==
    IF available = <<>> THEN {<<>>}
    ELSE LET templateName == Head(available)
             description == ExtractPromptDescriptionFromFile(dir[templateName])
             extracted == ExtractPromptArgumentsFromTemplate(tmpl, templateName)
         IN  {<<VerboseLine(templateName, description, args, extracted.err)>> \o rest :
                 args \in KeyOrders(extracted.args),
                 rest \in VerboseFrom(dir, tmpl, Tail(available))}

\* listTemplates with --verbose: the outputs one run can print
listTemplatesVerbose(dir) ==
    LET available == getAvailableTemplates(dir)
        parsed == ParseDir(dir)
    IN  IF available = <<>> THEN {[lines |-> <<>>, err |-> NoError]}
        ELSE IF parsed.err # NoError
        THEN {[lines |-> <<VerboseLine(Head(available),
                                       ExtractPromptDescriptionFromFile(dir[Head(available)]),
                                       <<>>, NoError)>>,
               err |-> LoadError("parse all prompts", <<>>, parsed.err)]}
        ELSE {[lines |-> lines, err |-> NoError] :
                 lines \in VerboseFrom(dir, parsed.tmpl, available)}

RECURSIVE ValidateFrom(_, _, _, _)
\* the loop of validateTemplates: one line per validated template
ValidateFrom(tmpl, available, templateName, lines) ==
    IF available = <<>> THEN lines
    ELSE IF templateName # <<>> /\ Head(available) # templateName
    THEN ValidateFrom(tmpl, Tail(available), templateName, lines)
    ELSE ValidateFrom(tmpl, Tail(available), templateName,
            Append(lines, [name |-> Head(available),
                           err |-> ExtractPromptArgumentsFromTemplate(tmpl, Head(available)).err]))

\* validateTemplates of one template (by name) or of all (the empty name)
validateTemplates(dir, templateName) ==
    LET name == IF templateName = <<>> THEN <<>> ELSE WithExt(templateName)
        available == getAvailableTemplates(dir)
        parsed == ParseDir(dir)
        lines == ValidateFrom(parsed.tmpl, available, name, <<>>)
    IN  IF name # <<>> /\ ~Contains(available, name)
        THEN [lines |-> <<>>, err |-> LoadError("template not found", name, NoError)]
        ELSE IF available = <<>>
        THEN [lines |-> <<>>, err |-> NoError]
        ELSE IF parsed.err # NoError
        THEN [lines |-> <<>>, err |-> LoadError("parse prompts directory", <<>>, parsed.err)]
        ELSE IF \E i \in 1..Len(lines) : lines[i].err # NoError
        THEN [lines |-> lines,
              err |-> LoadError("some templates have validation errors", <<>>, NoError)]
        ELSE [lines |-> lines, err |-> NoError]

----------------------------------------------------------------------------
(* Resolver runs: ExtractPromptArgumentsFromTemplate applied to bounded     *)
(* sets of templates that include each other.                               *)

\* the most template calls one template of a resolver run makes
MaxRefs == 2

WalkTemplates == {<<"main", templateExt>>, <<"a", templateExt>>, <<"b", templateExt>>, <<"c", templateExt>>}

\* the names the template calls of a resolver run use, in the order of their calls
WalkRefOrder == << <<"a">>, <<"b">>, <<"c">>, <<"c", templateExt>> >>

\* the field each template of a resolver run references itself
WalkField(name) == name[1]

RECURSIVE CallsOf(_, _)
CallsOf(refs, i) ==
    IF i > Len(WalkRefOrder) THEN <<>>
    ELSE (IF WalkRefOrder[i] \in refs THEN <<TemplateNode(WalkRefOrder[i], DotPipe)>> ELSE <<>>)
         \o CallsOf(refs, i + 1)

\* "text {{.field}} {{template r1 .}} {{template r2 .}} ..."
WalkBody(name, refs) ==
    ListNode(<<TextNode, FieldAction(WalkField(name))>> \o CallsOf(refs, 1))

WalkRefSets == {refs \in SUBSET {WalkRefOrder[i] : i \in 1..Len(WalkRefOrder)} :
                    Cardinality(refs) <= MaxRefs}

\* a resolver run has no server: its variables stay as they are here
NoResponse == [kind |-> "none"]
NoReload == [kind |-> "no reload yet"]
NoChange == [op |-> "none"]

ServerOff ==
    /\ promptsDir = [name \in {} |-> NilNode]
    /\ environ = [name \in {} |-> ""]
    /\ enableJSONArgs = TRUE
    /\ events = <<>>
    /\ changes = 0
    /\ mainPc = "off"
    /\ watcherOpen = FALSE
    /\ watcherPc = "off"
    /\ listenerPc = "off"
    /\ cancelled = FALSE
    /\ tmplNew = NoTemplates
    /\ newServerPrompts = <<>>
    /\ mcpPrompts = NoPrompts
    /\ registeredPrompts = <<>>
    /\ before = [prompts |-> NoPrompts, registered |-> <<>>]
    /\ lastErr = NoReload
    /\ lastChange = NoChange
    /\ response = NoResponse
    /\ inflight = NoResponse

InitWalk ==
    /\ ServerOff
    /\ \E refs \in [WalkTemplates -> WalkRefSets] :
            wTmpl = [name \in WalkTemplates |-> WalkBody(name, refs[name])]
    /\ wResult = [name |-> <<>>, args |-> <<>>, err |-> NoError]

\* one call of ExtractPromptArgumentsFromTemplate, by file name or by bare name
Extract ==
    /\ wResult.name = <<>>
    /\ \E file \in WalkTemplates, bare \in BOOLEAN :
         LET templateName == IF bare THEN TrimSuffix(file, templateExt) ELSE file
             res == ExtractPromptArgumentsFromTemplate(wTmpl, templateName)
         IN  \E args \in KeyOrders(res.args) :
                wResult' = [name |-> templateName, args |-> args, err |-> res.err]
    /\ UNCHANGED <<wTmpl, serverVars, inflight>>

NextWalk == Extract

SpecWalk == InitWalk /\ [][NextWalk]_vars

----------------------------------------------------------------------------
(* Resolver runs over templates with fields in both letter cases, the       *)
(* built-in date, template variables, branches and unresolved calls.        *)

\* the most pieces the body of main.tmpl is made of
MaxPieces == 2

\* the pipeline ".ident" of {{if .ident}} or {{template "name" .ident}}
FieldPipe(ident) == PipeNode(<<CommandNode(<<FieldNode(ident)>>)>>)

\* {{$v}}: the identifier of a variable node is the string "$v"
VariableAction == ActionNode(PipeNode(<<CommandNode(<<VariableNode(<<"$", "v">>)>>)>>))

\* {{$x}} or {{$x.name}}: a reference to a variable
VariableRef(ident) == ActionNode(PipeNode(<<CommandNode(<<VariableNode(ident)>>)>>))

\* the pipeline dict "i" .arg "k" .val of {{template "b" dict "i" .arg "k" .val}}
DictPipe ==
    PipeNode(<<CommandNode(<<IdentifierNode("dict"), StringNode("i"), FieldNode("arg"),
                             StringNode("k"), FieldNode("val")>>)>>)

\* the pieces of main.tmpl:
\*   {{.X}}   {{.x}}   {{.Date}}   {{with $v := .src}}{{$v}}{{$v.name}}{{end}}
\*   {{if .c}}{{.t}}{{else}}{{.e}}{{end}}
\*   {{template "a" .}}   {{template "b" dict "i" .arg "k" .val}}
\*   {{template "missing" .}}
\*   {{range $idx, $el := .items}}{{$el.name}}{{$idx}}{{end}}
\*   {{if .c}}{{$q := .first}}{{$q = .second}}{{$q.third}}{{end}}
ArgPieces ==
    << FieldAction("X"),
       FieldAction("x"),
       FieldAction("Date"),
       WithNode(DeclPipe(FALSE, <<VariableNode(<<"$", "v">>)>>,
                         <<CommandNode(<<FieldNode("src")>>)>>),
                ListNode(<<VariableAction, VariableRef(<<"$", "v", "name">>)>>), NilNode),
       IfNode(FieldPipe("c"), ListNode(<<FieldAction("t")>>), ListNode(<<FieldAction("e")>>)),
       TemplateNode(<<"a">>, DotPipe),
       TemplateNode(<<"b">>, DictPipe),
       TemplateNode(<<"missing">>, DotPipe),
       RangeNode(DeclPipe(FALSE, <<VariableNode(<<"$", "idx">>), VariableNode(<<"$", "el">>)>>,
                          <<CommandNode(<<FieldNode("items")>>)>>),
                 ListNode(<<VariableRef(<<"$", "el", "name">>), VariableRef(<<"$", "idx">>)>>),
                 NilNode),
       IfNode(FieldPipe("c"),
              ListNode(<<ActionNode(DeclPipe(FALSE, <<VariableNode(<<"$", "q">>)>>,
                                             <<CommandNode(<<FieldNode("first")>>)>>)),
                         ActionNode(DeclPipe(TRUE, <<VariableNode(<<"$", "q">>)>>,
                                             <<CommandNode(<<FieldNode("second")>>)>>)),
                         VariableRef(<<"$", "q", "third">>)>>),
              NilNode) >>

RECURSIVE PiecesFrom(_, _)
\* the chosen pieces in the order of ArgPieces
PiecesFrom(chosen, i) ==
    IF i > Len(ArgPieces) THEN <<>>
    ELSE (IF i \in chosen THEN <<ArgPieces[i]>> ELSE <<>>) \o PiecesFrom(chosen, i + 1)

\* the bodies the other templates can have:
\*   a.tmpl: {{.isPremium}}  or  {{range .y}}{{template "c" .}}{{else}}{{.n}}{{end}}
\*   b.tmpl: {{.date}} {{.w}}  or  {{with .w}}{{.i}}{{else}}{{.o}}{{end}}
\*   c.tmpl: {{.z}}  or  {{.z}} {{template "b.tmpl" .}}  or  {{.z}} {{template "gone" .}}
ArgBodies(name) ==
    IF name = <<"a", templateExt>>
    THEN { <<FieldAction("isPremium")>>,
           <<RangeNode(FieldPipe("y"), ListNode(<<TemplateNode(<<"c">>, DotPipe)>>),
                       ListNode(<<FieldAction("n")>>))>> }
    ELSE IF name = <<"b", templateExt>>
    THEN { <<FieldAction("date"), FieldAction("w")>>,
           <<WithNode(FieldPipe("w"), ListNode(<<FieldAction("i")>>),
                      ListNode(<<FieldAction("o")>>))>> }
    ELSE IF name = <<"c", templateExt>>
    THEN { <<FieldAction("z")>>,
           <<FieldAction("z"), TemplateNode(<<"b", templateExt>>, DotPipe)>>,
           <<FieldAction("z"), TemplateNode(<<"gone">>, DotPipe)>> }
    ELSE { PiecesFrom(chosen, 1) : chosen \in {c \in SUBSET (1..Len(ArgPieces)) :
                                                Cardinality(c) <= MaxPieces} }

InitArgs ==
    /\ ServerOff
    /\ \E m \in ArgBodies(<<"main", templateExt>>), a \in ArgBodies(<<"a", templateExt>>),
          b \in ArgBodies(<<"b", templateExt>>), c \in ArgBodies(<<"c", templateExt>>) :
            wTmpl = [name \in WalkTemplates |->
                        ListNode(<<TextNode>> \o
                                 (CASE name = <<"a", templateExt>> -> a
                                    [] name = <<"b", templateExt>> -> b
                                    [] name = <<"c", templateExt>> -> c
                                    [] OTHER -> m))]
    /\ wResult = [name |-> <<>>, args |-> {}, err |-> NoError]

\* one call of ExtractPromptArgumentsFromTemplate, by file name or by bare name; the
\* slice it returns is kept as the set of its entries (it holds each key of argsMap once)
ExtractArgs ==
    /\ wResult.name = <<>>
    /\ \E file \in WalkTemplates, bare \in BOOLEAN :
         LET templateName == IF bare THEN TrimSuffix(file, templateExt) ELSE file
             res == ExtractPromptArgumentsFromTemplate(wTmpl, templateName)
         IN  wResult' = [name |-> templateName, args |-> res.args, err |-> res.err]
    /\ UNCHANGED <<wTmpl, serverVars, inflight>>

NextArgs == ExtractArgs

SpecArgs == InitArgs /\ [][NextArgs]_vars

----------------------------------------------------------------------------
(* The graph of template calls of a parsed template set.                    *)

RECURSIVE CallsIn(_), CallsInList(_)

\* the names the template calls inside a tree use
CallsIn(node) ==
    CASE node = NilNode -> {}
      [] node.kind = "list" -> CallsInList(node.nodes)
      [] node.kind \in {"if", "range", "with"} -> CallsIn(node.list) \cup CallsIn(node.elseList)
      [] node.kind = "template" -> {node.name}
      [] OTHER -> {}

CallsInList(nodes) ==
    IF nodes = <<>> THEN {} ELSE CallsIn(Head(nodes)) \cup CallsInList(Tail(nodes))

\* the template a call by that name enters: the name itself or the name + extension
Unresolved == <<>>
Resolve(tmpl, ref) ==
    IF ref \in DOMAIN tmpl THEN ref
    ELSE IF ~HasSuffix(ref, templateExt) /\ Append(ref, templateExt) \in DOMAIN tmpl
         THEN Append(ref, templateExt)
         ELSE Unresolved

Callees(tmpl, name) == {Resolve(tmpl, ref) : ref \in CallsIn(tmpl[name])} \ {Unresolved}

RECURSIVE Closure(_, _)
Closure(tmpl, names) ==
    LET more == names \cup UNION {Callees(tmpl, n) : n \in names}
    IN  IF more = names THEN names ELSE Closure(tmpl, more)

\* the templates entered from `name` through one or more calls
Reached(tmpl, name) == Closure(tmpl, Callees(tmpl, name))

OnCycle(tmpl, name) == name \in Reached(tmpl, name)

\* some cycle of calls can be entered from `name`
CycleReachable(tmpl, name) ==
    \E n \in {name} \cup Reached(tmpl, name) : OnCycle(tmpl, n)

\* every call walked from `name` names a template of the set
AllResolve(tmpl, name) ==
    \A n \in {name} \cup Reached(tmpl, name) :
        \A ref \in CallsIn(tmpl[n]) : Resolve(tmpl, ref) # Unresolved

RECURSIVE SumOver(_, _, _, _)
\* the number of call paths from one template to another, in a set without a cycle
PathCount(tmpl, from, to) ==
    IF from = to THEN 1 ELSE SumOver(tmpl, CallsIn(tmpl[from]), to, 0)

SumOver(tmpl, refs, to, acc) ==
    IF refs = {} THEN acc
    ELSE LET ref == CHOOSE r \in refs : TRUE
             n == IF Resolve(tmpl, ref) = Unresolved THEN 0
                  ELSE PathCount(tmpl, Resolve(tmpl, ref), to)
         IN  SumOver(tmpl, refs \ {ref}, to, acc + n)

\* the file a resolver run started from
WalkTarget == Resolve(wTmpl, wResult.name)

Count(seq, x) == Cardinality({i \in 1..Len(seq) : seq[i] = x})

IsSubSeq(part, seq) ==
    \E i \in 0..(Len(seq) - Len(part)) : SubSeq(seq, i + 1, i + Len(part)) = part

WalkDone == wResult.name # <<>>

----------------------------------------------------------------------------
(* The server: NewPromptsServer, ServeStdio, the watcher loop, the reload,  *)
(* the requests, and the directory changing under it.                       *)

\* the most filesystem events the directory sees while it is watched
MaxChanges == 2

NotesFile == File(FALSE, <<"text">>, NilNode, NoDefines)

\* the contents a file of the model can have
ContentsOf(name) ==
    IF name = FileNameP THEN {FileDefP}
    ELSE IF name = FileNameA THEN {FileX, FileXYP, FileZB}
    ELSE {FileX, FileXYP, FileBroken}

WithNotes(files) ==
    [name \in DOMAIN files \cup {FileNameNotes} |->
        IF name = FileNameNotes THEN NotesFile ELSE files[name]]

Directories ==
    {WithNotes(files) :
        files \in UNION {{f \in [present -> Contents] :
                            \A name \in present : f[name] \in ContentsOf(name)} :
                         present \in SUBSET TemplateFiles}}

\* the environment of the process: Y is set, X and Z are not
Environments == {[name \in {"Y"} |-> "env-y"]}

Init ==
    /\ promptsDir \in Directories
    /\ environ \in Environments
    /\ enableJSONArgs = TRUE
    /\ events = <<>>
    /\ changes = 0
    /\ mainPc = "start"
    /\ watcherOpen = FALSE
    /\ watcherPc = "off"
    /\ listenerPc = "off"
    /\ cancelled = FALSE
    /\ tmplNew = NoTemplates
    /\ newServerPrompts = <<>>
    /\ mcpPrompts = NoPrompts
    /\ registeredPrompts = <<>>
    /\ before = [prompts |-> NoPrompts, registered |-> <<>>]
    /\ lastErr = NoReload
    /\ lastChange = NoChange
    /\ response = NoResponse
    /\ inflight = NoResponse
    /\ wTmpl = NoTemplates
    /\ wResult = [name |-> <<>>, args |-> <<>>, err |-> NoError]

\* a reloadPrompts that deletes the registered prompts before it loads the new ones
PromptsDeletedFirst(prompts, registered) == DeletePrompts(prompts, registered)

\* reloadPrompts when loadServerPrompts failed: it returns before it touches anything
PromptsAfterFailedLoad(prompts, registered) == prompts

\* reloadPrompts: DeletePrompts of the registered names when there are any
PromptsAfterDelete(prompts, registered) ==
    IF Len(registered) > 0 THEN DeletePrompts(prompts, registered) ELSE prompts

\* a watcher loop that returns when a reload fails
WatcherStopsOnError(err) == IF err = NoError THEN "select" ELSE "exited"

\* the watcher loop after reloadPrompts returned: it logs an error and waits again
WatcherAfterReload(err) == "select"

\* a NewPromptsServer that leaves its watcher open on every return
WatcherLeftOpen(err) == TRUE

\* NewPromptsServer closes the watcher it created when it returns an error
WatcherOpenAfterNew(err) == err = NoError

\* NewPromptsServer: create the watcher, add the directory, create the MCP server,
\* reload; on an error no server is returned
NewPromptsServer ==
    /\ mainPc = "start"
    /\ LET loaded == loadServerPrompts(promptsDir, environ)
       IN  IF loaded.err # NoError
           THEN /\ lastErr' = loaded.err
                /\ mcpPrompts' = PromptsAfterFailedLoad(mcpPrompts, registeredPrompts)
                /\ mainPc' = "failed"
                /\ UNCHANGED registeredPrompts
           ELSE /\ lastErr' = NoError
                /\ mcpPrompts' = AddPrompts(PromptsAfterDelete(mcpPrompts, registeredPrompts),
                                            loaded.prompts)
                /\ registeredPrompts' = PromptNames(loaded.prompts)
                /\ mainPc' = "created"
    /\ watcherOpen' = WatcherOpenAfterNew(lastErr')
    /\ response' = NoResponse
    /\ UNCHANGED <<fsVars, listenerPc, cancelled, watcherPc, tmplNew, newServerPrompts,
                   before, walkVars, inflight>>

\* a ServeStdio that starts the goroutines on a server that has not loaded yet
ServeStdioBeforeLoad ==
    /\ mainPc = "start"
    /\ mainPc' = "serving"
    /\ watcherPc' = "select"
    /\ listenerPc' = "listening"
    /\ response' = NoResponse
    /\ UNCHANGED <<fsVars, watcherOpen, cancelled, tmplNew, newServerPrompts, mcpPrompts,
                   registeredPrompts, before, lastErr, walkVars, inflight>>

\* ServeStdio starts the watcher goroutine and the goroutine of the stdio server
ServeStdio ==
    /\ mainPc = "created"
    /\ mainPc' = "serving"
    /\ watcherPc' = "select"
    /\ listenerPc' = "listening"
    /\ response' = NoResponse
    /\ UNCHANGED <<fsVars, watcherOpen, cancelled, tmplNew, newServerPrompts, mcpPrompts,
                   registeredPrompts, before, lastErr, walkVars, inflight>>

\* no reload is running and no event waits
Quiescent == watcherPc \in {"off", "select"} /\ events = <<>>

\* the registry that holds exactly these prompts, each under its name
Registry(serverPrompts) ==
    [n \in {serverPrompts[i].Prompt.Name : i \in 1..Len(serverPrompts)} |->
        serverPrompts[CHOOSE i \in 1..Len(serverPrompts) : serverPrompts[i].Prompt.Name = n]]

\* the registry is the one a reload builds from the directory as it is
InSync ==
    LET loaded == loadServerPrompts(promptsDir, environ)
    IN  loaded.err = NoError /\ mcpPrompts = Registry(loaded.prompts)

Watched == watcherOpen /\ ~cancelled /\ changes < MaxChanges

Changed(op, name) ==
    /\ events' = Append(events, name)
    /\ changes' = changes + 1
    /\ lastChange' = [op |-> op, name |-> name, prompts |-> mcpPrompts,
                       synced |-> Quiescent /\ InSync]
    /\ response' = NoResponse
    /\ UNCHANGED <<environ, enableJSONArgs, lifeVars, reloadVars, walkVars, inflight>>

\* a template file is created or rewritten
WriteFile ==
    /\ Watched
    /\ \E name \in TemplateFiles, file \in Contents :
        /\ file \in ContentsOf(name)
        /\ name \in DOMAIN promptsDir => promptsDir[name] # file
        /\ promptsDir' = [n \in DOMAIN promptsDir \cup {name} |->
                            IF n = name THEN file ELSE promptsDir[n]]
        /\ Changed(IF name \in DOMAIN promptsDir THEN "edit" ELSE "add", name)

\* a template file is removed
RemoveFile ==
    /\ Watched
    /\ \E name \in TemplateFiles \cap DOMAIN promptsDir :
        /\ promptsDir' = [n \in DOMAIN promptsDir \ {name} |-> promptsDir[n]]
        /\ Changed("remove", name)

\* a file that is no template is written: an event, and the same templates
WriteOtherFile ==
    /\ Watched
    /\ promptsDir' = promptsDir
    /\ events' = Append(events, FileNameNotes)
    /\ changes' = changes + 1
    /\ response' = NoResponse
    /\ UNCHANGED <<environ, enableJSONArgs, lastChange, lifeVars, reloadVars, walkVars, inflight>>

\* a watcher loop that skips no event
qualifiesAnyFile(eventName) == TRUE

\* a watcher loop that skips the events of partials as well
qualifiesPromptOnly(eventName) == isTemplateFile(eventName)

\* an event the watcher loop does not skip: its name ends with the extension
qualifies(eventName) == HasSuffix(eventName, templateExt)

WatcherAtSelect == mainPc \in {"serving", "joining"} /\ watcherPc = "select"

\* the watcher loop receives an event whose name has not the template extension
WatcherSkipEvent ==
    /\ WatcherAtSelect /\ events # <<>>
    /\ ~qualifies(Head(events))
    /\ events' = Tail(events)
    /\ response' = NoResponse
    /\ UNCHANGED <<promptsDir, environ, enableJSONArgs, changes, lastChange, lifeVars,
                   reloadVars, walkVars, inflight>>

\* the watcher loop receives a template event and calls reloadPrompts, which calls
\* loadServerPrompts, which parses the directory
WatcherReload ==
    /\ WatcherAtSelect /\ events # <<>>
    /\ qualifies(Head(events))
    /\ events' = Tail(events)
    /\ before' = [prompts |-> mcpPrompts, registered |-> registeredPrompts]
    /\ LET parsed == ParseDir(promptsDir)
       IN  IF parsed.err # NoError
           THEN /\ lastErr' = LoadError("parse all prompts", <<>>, parsed.err)
                /\ mcpPrompts' = PromptsAfterFailedLoad(mcpPrompts, registeredPrompts)
                /\ watcherPc' = WatcherAfterReload(lastErr')
                /\ UNCHANGED tmplNew
           ELSE /\ watcherPc' = "parsed"
                /\ tmplNew' = parsed.tmpl
                /\ UNCHANGED <<lastErr, mcpPrompts>>
    /\ response' = NoResponse
    /\ UNCHANGED <<promptsDir, environ, enableJSONArgs, changes, lastChange, lifeVars, newServerPrompts,
                   registeredPrompts, walkVars, inflight>>

\* loadServerPrompts reads the directory and builds the prompts
WatcherLoad ==
    /\ watcherPc = "parsed"
    /\ LET loaded == LoadPrompts(tmplNew, promptsDir, environ)
       IN  IF loaded.err # NoError
           THEN /\ lastErr' = loaded.err
                /\ mcpPrompts' = PromptsAfterFailedLoad(mcpPrompts, registeredPrompts)
                /\ watcherPc' = WatcherAfterReload(lastErr')
                /\ UNCHANGED newServerPrompts
           ELSE /\ watcherPc' = "loaded"
                /\ newServerPrompts' = loaded.prompts
                /\ UNCHANGED <<lastErr, mcpPrompts>>
    /\ response' = NoResponse
    /\ UNCHANGED <<fsVars, lifeVars, tmplNew, registeredPrompts, before, walkVars, inflight>>

\* reloadPrompts deletes the registered prompts from the MCP server
WatcherDelete ==
    /\ watcherPc = "loaded"
    /\ mcpPrompts' = PromptsAfterDelete(mcpPrompts, registeredPrompts)
    /\ watcherPc' = "deleted"
    /\ response' = NoResponse
    /\ UNCHANGED <<fsVars, lifeVars, tmplNew, newServerPrompts, registeredPrompts, before,
                   lastErr, walkVars, inflight>>

\* reloadPrompts adds the new prompts, stores their names and returns nil
WatcherAdd ==
    /\ watcherPc = "deleted"
    /\ mcpPrompts' = AddPrompts(mcpPrompts, newServerPrompts)
    /\ registeredPrompts' = PromptNames(newServerPrompts)
    /\ lastErr' = NoError
    /\ watcherPc' = WatcherAfterReload(lastErr')
    /\ response' = NoResponse
    /\ UNCHANGED <<fsVars, lifeVars, tmplNew, newServerPrompts, before, walkVars, inflight>>

\* the watcher loop receives a watcher error and logs it
WatcherError ==
    /\ WatcherAtSelect
    /\ response' = NoResponse
    /\ UNCHANGED <<fsVars, lifeVars, reloadVars, walkVars, inflight>>

\* the watcher loop sees the cancelled context and returns
WatcherStop ==
    /\ WatcherAtSelect /\ cancelled
    /\ watcherPc' = "exited"
    /\ response' = NoResponse
    /\ UNCHANGED <<fsVars, lifeVars, tmplNew, newServerPrompts, mcpPrompts,
                   registeredPrompts, before, lastErr, walkVars, inflight>>

PromptRequestNames == {<<"a">>, <<"b">>}

\* the stdio server serves one request: prompts/list or prompts/get
Request ==
    /\ listenerPc = "listening"
    /\ \/ response' = [kind |-> "list", prompts |-> HandleListPrompts(mcpPrompts)]
       \/ \E name \in PromptRequestNames :
            response' = [kind |-> "get", name |-> name,
                         result |-> HandleGetPrompt(mcpPrompts, name, NoArguments)]
    /\ UNCHANGED <<fsVars, lifeVars, reloadVars, walkVars, inflight>>

\* the shutdown signal: the context of ServeStdio is cancelled
Cancel ==
    /\ mainPc \in {"serving", "joining"} /\ ~cancelled
    /\ cancelled' = TRUE
    /\ response' = NoResponse
    /\ UNCHANGED <<fsVars, mainPc, watcherOpen, listenerPc, reloadVars, walkVars, inflight>>

\* Listen returns: the context is cancelled, or the input of the client ended
ListenerStop ==
    /\ listenerPc = "listening"
    /\ listenerPc' = "done"
    /\ response' = NoResponse
    /\ UNCHANGED <<fsVars, mainPc, watcherOpen, cancelled, reloadVars, walkVars, inflight>>

\* ServeStdio leaves its select: Listen has returned or the context is cancelled
ServeSelect ==
    /\ mainPc = "serving"
    /\ listenerPc = "done" \/ cancelled
    /\ mainPc' = "joining"
    /\ response' = NoResponse
    /\ UNCHANGED <<fsVars, watcherOpen, listenerPc, cancelled, reloadVars, walkVars, inflight>>

\* a wait for the goroutine of the stdio server only
JoinedListenerOnly == listenerPc = "done"

\* wg.Wait: both goroutines have called wg.Done
Joined == watcherPc = "exited" /\ listenerPc = "done"

\* wg.Wait returns when both goroutines are done, and ServeStdio returns
ServeReturn ==
    /\ mainPc = "joining"
    /\ Joined
    /\ mainPc' = "returned"
    /\ response' = NoResponse
    /\ UNCHANGED <<fsVars, watcherOpen, listenerPc, cancelled, reloadVars, walkVars, inflight>>

Next ==
    \/ NewPromptsServer
    \/ ServeStdio
    \/ WriteFile
    \/ RemoveFile
    \/ WriteOtherFile
    \/ WatcherSkipEvent
    \/ WatcherReload
    \/ WatcherLoad
    \/ WatcherDelete
    \/ WatcherAdd
    \/ WatcherError
    \/ WatcherStop
    \/ Request
    \/ Cancel
    \/ ListenerStop
    \/ ServeSelect
    \/ ServeReturn

Spec == Init /\ [][Next]_vars

\* the steps of the goroutines that the Go scheduler runs when they can run
Startup == NewPromptsServer \/ ServeStdio

WatcherStep == WatcherSkipEvent \/ WatcherReload \/ WatcherLoad \/ WatcherDelete \/ WatcherAdd

DirectoryChange == WriteFile \/ RemoveFile \/ WriteOtherFile

\* the steps of a server whose context is never cancelled and that gets no request
NextLive ==
    \/ Startup
    \/ DirectoryChange
    \/ WatcherStep
    \/ WatcherError
    \/ ListenerStop
    \/ ServeSelect

\* the watcher goroutine can take a step
WatcherCanStep ==
    \/ WatcherAtSelect /\ events # <<>>
    \/ watcherPc \in {"parsed", "loaded", "deleted"}

\* weak fairness of WatcherStep, with its enabling condition written out
WatcherFair == []<>~WatcherCanStep \/ []<><<WatcherStep>>_vars

\* that server under a scheduler that lets main start the goroutines and lets the
\* watcher goroutine run
SpecLive == Init /\ [][NextLive]_vars /\ WF_vars(ServeStdio) /\ WatcherFair

\* the steps of a server that gets no request and whose context can be cancelled
NextStop ==
    \/ Startup
    \/ DirectoryChange
    \/ WatcherStep
    \/ WatcherError
    \/ WatcherStop
    \/ Cancel
    \/ ListenerStop
    \/ ServeSelect
    \/ ServeReturn

\* weak fairness, with the enabling conditions written out, of WatcherStop (the
\* watcher loop at its select with the context cancelled) and of ListenerStop once
\* the context is cancelled
StopFair ==
    /\ []<>~(WatcherAtSelect /\ cancelled) \/ []<><<WatcherStop>>_vars
    /\ []<>~(listenerPc = "listening" /\ cancelled) \/ []<><<ListenerStop>>_vars

\* that server under a scheduler that lets every goroutine run: the watcher loop
\* handles or leaves its select, Listen returns after the cancellation, and main
\* goes through its select and wg.Wait
SpecStop ==
    /\ Init /\ [][NextStop]_vars
    /\ WatcherFair /\ StopFair
    /\ WF_vars(ServeSelect) /\ WF_vars(ServeReturn)

\* the stdio server looks up the handler of a prompts/get under the lock of the
\* registry; for a name that is not registered it answers at once
GetLookup ==
    /\ listenerPc = "listening" /\ inflight = NoResponse
    /\ \E name \in PromptRequestNames :
         IF name \in DOMAIN mcpPrompts
         THEN /\ inflight' = [kind |-> "get", name |-> name,
                               handler |-> mcpPrompts[name].Handler]
              /\ response' = NoResponse
         ELSE /\ response' = [kind |-> "get", name |-> name,
                               result |-> HandleGetPrompt(mcpPrompts, name, NoArguments)]
              /\ UNCHANGED inflight
    /\ UNCHANGED <<fsVars, lifeVars, reloadVars, walkVars>>

\* the stdio server calls the handler it has looked up and answers
GetRender ==
    /\ inflight # NoResponse
    /\ response' = [kind |-> "served", name |-> inflight.name, handler |-> inflight.handler,
                     result |-> CallHandler(inflight.handler, NoArguments)]
    /\ inflight' = NoResponse
    /\ UNCHANGED <<fsVars, lifeVars, reloadVars, walkVars>>

\* the steps of a server that serves prompts/get while the directory changes
NextGet ==
    \/ Startup
    \/ DirectoryChange
    \/ WatcherStep
    \/ GetLookup
    \/ GetRender

SpecGet == Init /\ [][NextGet]_vars

----------------------------------------------------------------------------
(* Requests with arguments and the commands of the CLI, on a directory that *)
(* does not change.                                                         *)

\* the most arguments one request or one render command carries
MaxArgs == 2

\* the names of the arguments a caller sends
ArgKeys == {"x", "y", "date"}

\* the strings a caller sends as values
ArgStrings ==
    {"John", "true", "false", "42", "null", "[1, 2]", "{\"a\": 1}", "\"Alice\"",
     "{name: \"Alice\"}"}

\* {{.isPremium}} after a text
FileCase == File(FALSE, <<"text">>,
                 ListNode(<<TextNode, FieldAction("isPremium")>>), NoDefines)

\* a directory whose template writes a field with upper-case letters
CaseDirectory == WithNotes([name \in {FileNameA} |-> FileCase])

\* the environments of that directory: ISPREMIUM is set or not
CaseEnvironments ==
    Environments \cup {[name \in {"Y", "ISPREMIUM"} |->
                          IF name = "Y" THEN "env-y" ELSE "env-premium"]}

\* the arguments a caller sends for that field: under the name as the prompt lists it
\* or as the template writes it
CaseArguments == [{"ispremium"} -> {"John", "true"}] \cup [{"isPremium"} -> {"John"}]

RequestArguments ==
    UNION {[keys -> ArgStrings] : keys \in {k \in SUBSET ArgKeys : Cardinality(k) <= MaxArgs}}
        \cup CaseArguments

\* the template names a render or validate command is given
CommandNames == {<<"a">>, <<"b", templateExt>>, <<"_", "p">>}

InitRender ==
    /\ \E started \in (Directories \X Environments) \cup ({CaseDirectory} \X CaseEnvironments) :
          promptsDir = started[1] /\ environ = started[2]
    /\ enableJSONArgs \in BOOLEAN
    /\ events = <<>>
    /\ changes = 0
    /\ mainPc = "start"
    /\ watcherOpen = FALSE
    /\ watcherPc = "off"
    /\ listenerPc = "off"
    /\ cancelled = FALSE
    /\ tmplNew = NoTemplates
    /\ newServerPrompts = <<>>
    /\ mcpPrompts = NoPrompts
    /\ registeredPrompts = <<>>
    /\ before = [prompts |-> NoPrompts, registered |-> <<>>]
    /\ lastErr = NoReload
    /\ lastChange = NoChange
    /\ response = NoResponse
    /\ inflight = NoResponse
    /\ wTmpl = NoTemplates
    /\ wResult = [name |-> <<>>, args |-> <<>>, err |-> NoError]

\* the stdio server serves prompts/get with arguments; the data map the handler built
\* is kept with the answer
RequestWithArguments ==
    /\ listenerPc = "listening" /\ response = NoResponse
    /\ \E name \in PromptRequestNames, arguments \in RequestArguments :
         response' = [kind |-> "get", name |-> name, arguments |-> arguments,
                      enableJSONArgs |-> enableJSONArgs,
                      ran |-> name \in DOMAIN mcpPrompts,
                      data |-> IF name \in DOMAIN mcpPrompts
                               THEN HandlerData(mcpPrompts[name].Handler, arguments)
                               ELSE NoData,
                      result |-> HandleGetPrompt(mcpPrompts, name, arguments)]
    /\ UNCHANGED <<fsVars, lifeVars, reloadVars, walkVars, inflight>>

\* mcp-prompt-engine render <template_name> -a name=value ... [--disable-json-args]
RenderCommand ==
    /\ response = NoResponse
    /\ \E name \in CommandNames, cliArgs \in RequestArguments, enableJSON \in BOOLEAN :
         LET rendered == renderTemplate(promptsDir, environ, name, cliArgs, enableJSON)
         IN  response' = [kind |-> "render", name |-> name, arguments |-> cliArgs,
                          enableJSONArgs |-> enableJSON, ran |-> rendered.ran,
                          data |-> rendered.data, result |-> rendered]
    /\ UNCHANGED <<fsVars, lifeVars, reloadVars, walkVars, inflight>>

\* mcp-prompt-engine list
ListCommand ==
    /\ response = NoResponse
    /\ response' = [kind |-> "cli list", names |-> listTemplates(promptsDir)]
    /\ UNCHANGED <<fsVars, lifeVars, reloadVars, walkVars, inflight>>

\* mcp-prompt-engine list --verbose
ListVerboseCommand ==
    /\ response = NoResponse
    /\ \E printed \in listTemplatesVerbose(promptsDir) :
         response' = [kind |-> "cli list verbose", lines |-> printed.lines,
                      err |-> printed.err]
    /\ UNCHANGED <<fsVars, lifeVars, reloadVars, walkVars, inflight>>

\* mcp-prompt-engine validate [template_name]
ValidateCommand ==
    /\ response = NoResponse
    /\ \E name \in CommandNames \cup {<<>>} :
         response' = [kind |-> "cli validate", name |-> name,
                      result |-> validateTemplates(promptsDir, name)]
    /\ UNCHANGED <<fsVars, lifeVars, reloadVars, walkVars, inflight>>

\* prompts/list on the server of this specification
ListRequest ==
    /\ listenerPc = "listening" /\ response = NoResponse
    /\ response' = [kind |-> "list", prompts |-> HandleListPrompts(mcpPrompts)]
    /\ UNCHANGED <<fsVars, lifeVars, reloadVars, walkVars, inflight>>

NextRender ==
    \/ NewPromptsServer
    \/ ServeStdio
    \/ RequestWithArguments
    \/ ListRequest
    \/ RenderCommand
    \/ ListCommand
    \/ ListVerboseCommand
    \/ ValidateCommand

SpecRender == InitRender /\ [][NextRender]_vars

----------------------------------------------------------------------------
(* Claims about the resolver (checked under SpecWalk).                      *)

FileA == <<"a", templateExt>>
FileB == <<"b", templateExt>>
FileC == <<"c", templateExt>>
FileMain == <<"main", templateExt>>

\* a.tmpl calls "b", b.tmpl calls "c", c.tmpl calls "a", and nothing else
CycleABC ==
    /\ CallsIn(wTmpl[FileA]) = {<<"b">>}
    /\ CallsIn(wTmpl[FileB]) = {<<"c">>}
    /\ CallsIn(wTmpl[FileC]) = {<<"a">>}

IsCycleError(err) == err.kind = "cyclic partial reference detected"

\* the chain ends with a name that stands earlier in the chain
EndsWithRepeat(chain) ==
    Len(chain) >= 2 /\ Count(SubSeq(chain, 1, Len(chain) - 1), chain[Len(chain)]) = 1

CycleCase == WalkDone /\ AllResolve(wTmpl, WalkTarget) /\ CycleReachable(wTmpl, WalkTarget)

\* C9 as stated: whenever a cycle of partial references can be reached from the
\* prompt, extraction returns the cyclic-reference error, never a variable list; the
\* chain ends with a name that appears earlier in it; and for the cycle
\* a -> b -> c -> a, resolving a reports a chain that contains a -> b -> c -> a.
C9_AsStated ==
    CycleCase =>
        /\ IsCycleError(wResult.err)
        /\ wResult.args = <<>>
        /\ EndsWithRepeat(wResult.err.chain)
        /\ (CycleABC /\ WalkTarget = FileA =>
                IsSubSeq(<< <<"a">>, <<"b">>, <<"c">>, <<"a">> >>, wResult.err.chain))

\* C9 as amended: whenever a cycle of partial references can be reached from the
\* prompt, extraction returns the cyclic-reference error, never a variable list; the
\* chain holds the names of the template calls followed from the prompt (the prompt's
\* own name is not its head), each name called by the template before it, and ends
\* with the one name that appears earlier in it: for the cycle a -> b -> c -> a the
\* chain is a -> b -> c -> a when the prompt calls a from outside the cycle and
\* b -> c -> a -> b when the prompt is a itself.
C9_CycleErrorChain ==
    CycleCase =>
        /\ IsCycleError(wResult.err)
        /\ wResult.args = <<>>
        /\ LET chain == wResult.err.chain
           IN  /\ EndsWithRepeat(chain)
               /\ chain[1] \in CallsIn(wTmpl[WalkTarget])
               /\ \A i \in 1..(Len(chain) - 1) :
                     chain[i + 1] \in CallsIn(wTmpl[Resolve(wTmpl, chain[i])])
               /\ (CycleABC /\ WalkTarget = FileA =>
                     chain = << <<"b">>, <<"c">>, <<"a">>, <<"b">> >>)
               /\ (CycleABC /\ WalkTarget = FileMain /\ CallsIn(wTmpl[FileMain]) = {<<"a">>} =>
                     chain = << <<"a">>, <<"b">>, <<"c">>, <<"a">> >>)

\* the prompt a on the cycle a -> b -> c -> a got its cyclic-reference error
C9_Witness ==
    /\ CycleCase /\ CycleABC /\ WalkTarget = FileA
    /\ wResult.err = CycleError(<< <<"b">>, <<"c">>, <<"a">>, <<"b">> >>)

\* the partials reached from the prompt of the run along two or more call paths
SharedPartials ==
    {n \in Reached(wTmpl, WalkTarget) : PathCount(wTmpl, WalkTarget, n) >= 2}

DiamondCase ==
    /\ WalkDone /\ AllResolve(wTmpl, WalkTarget)
    /\ ~CycleReachable(wTmpl, WalkTarget)
    /\ SharedPartials # {}

\* C10: in a set of templates without a cycle where a partial is reached along two
\* or more paths, extraction succeeds (no cycle error) and the returned list holds
\* the variable of each shared partial exactly once (and exactly the variables of
\* the prompt and of the partials it reaches).
C10_DiamondOnce ==
    DiamondCase =>
        /\ wResult.err = NoError
        /\ \A n \in SharedPartials : Count(wResult.args, WalkField(n)) = 1
        /\ {wResult.args[i] : i \in 1..Len(wResult.args)} =
              {WalkField(n) : n \in {WalkTarget} \cup Reached(wTmpl, WalkTarget)}

\* main calls a and b, which both call c: the diamond was resolved
C10_Witness ==
    /\ DiamondCase /\ WalkTarget = FileMain
    /\ CallsIn(wTmpl[FileMain]) = {<<"a">>, <<"b">>}
    /\ CallsIn(wTmpl[FileA]) = {<<"c">>}
    /\ CallsIn(wTmpl[FileB]) = {<<"c">>}
    /\ CallsIn(wTmpl[FileC]) = {}
    /\ wResult.err = NoError
    /\ Count(wResult.args, "c") = 1

----------------------------------------------------------------------------
(* Claims about the server (checked under Spec and SpecLive).               *)

IsError(err) == err \notin {NoError, NoReload}

\* the watcher loop has received every event and no reload is running
EventsProcessed == events = <<>> /\ watcherPc \in {"select", "exited"}

\* reloadPrompts is between loading the new prompts and storing their names
Replacing == watcherPc \in {"loaded", "deleted"}

PromptOf(file) == TrimSuffix(file, templateExt)

\* C1 (as stated): a list or get request served while reloadPrompts replaces the
\* prompts answers from the complete previous set or from the complete new set.
C1_AtomicReplacement ==
    /\ (Replacing /\ response.kind = "list") =>
            response.prompts \in {HandleListPrompts(before.prompts),
                                  HandleListPrompts(Registry(newServerPrompts))}
    /\ (Replacing /\ response.kind = "get") =>
            response.result \in
                {HandleGetPrompt(before.prompts, response.name, NoArguments),
                 HandleGetPrompt(Registry(newServerPrompts), response.name, NoArguments)}

AddProcessed ==
    /\ lastChange.op = "add" /\ isTemplateFile(lastChange.name)
    /\ lastChange.synced /\ EventsProcessed /\ lastErr = NoError

\* C3: a registry in step with the directory, one valid prompt file added, its event
\* processed: the registry is the previous one plus that prompt, listed with the
\* description and the arguments of the file, and it renders.
C3_AddOnePrompt ==
    AddProcessed =>
        LET old == lastChange.prompts
            name == PromptOf(lastChange.name)
            extracted == ExtractPromptArgumentsFromTemplate(ParseDir(promptsDir).tmpl,
                                                            lastChange.name)
        IN  /\ name \notin DOMAIN old
            /\ DOMAIN mcpPrompts = DOMAIN old \cup {name}
            /\ Cardinality(DOMAIN mcpPrompts) = Cardinality(DOMAIN old) + 1
            /\ \A m \in DOMAIN old :
                    /\ mcpPrompts[m].Prompt = old[m].Prompt
                    /\ HandleGetPrompt(mcpPrompts, m, NoArguments)
                            = HandleGetPrompt(old, m, NoArguments)
            /\ HandleListPrompts(mcpPrompts)[name] =
                    [Name |-> name,
                     Description |-> ExtractPromptDescriptionFromFile(promptsDir[lastChange.name]),
                     Arguments |-> promptArgsOf(extracted.args, environ)]
            /\ HandleGetPrompt(mcpPrompts, name, NoArguments).err = NoError

C3_Witness ==
    /\ AddProcessed
    /\ DOMAIN lastChange.prompts # {}
    /\ mcpPrompts[PromptOf(lastChange.name)].Prompt.Description = "d1"
    /\ mcpPrompts[PromptOf(lastChange.name)].Prompt.Arguments = {"x", "w"}

RemoveProcessed ==
    /\ lastChange.op = "remove" /\ isTemplateFile(lastChange.name)
    /\ lastChange.synced /\ EventsProcessed

\* C4 (as stated): a registry in step with the directory, one prompt file removed,
\* its event processed: the registry holds exactly one prompt fewer, a get of the
\* removed prompt fails and the other prompts are served as before, whatever else
\* the directory holds.
C4_RemoveOnePrompt ==
    RemoveProcessed =>
        LET old == lastChange.prompts
            name == PromptOf(lastChange.name)
        IN  /\ DOMAIN mcpPrompts = DOMAIN old \ {name}
            /\ Cardinality(DOMAIN mcpPrompts) = Cardinality(DOMAIN old) - 1
            /\ HandleGetPrompt(mcpPrompts, name, NoArguments).err = PromptNotFound(name)
            /\ \A m \in DOMAIN old \ {name} :
                    /\ m \in DOMAIN mcpPrompts
                    /\ mcpPrompts[m].Prompt = old[m].Prompt

EditProcessed ==
    /\ lastChange.op = "edit" /\ isTemplateFile(lastChange.name)
    /\ lastChange.synced /\ EventsProcessed /\ lastErr = NoError

ArgumentsChanged ==
    mcpPrompts[PromptOf(lastChange.name)].Prompt.Arguments
        # lastChange.prompts[PromptOf(lastChange.name)].Prompt.Arguments

\* C5 (as stated): a prompt file edited so that its variables change, the reload
\* successful: every other prompt has the name, description and arguments it had.
C5_OnlyThatPrompt ==
    (EditProcessed /\ ArgumentsChanged) =>
        \A m \in DOMAIN lastChange.prompts \ {PromptOf(lastChange.name)} :
            m \in DOMAIN mcpPrompts /\ mcpPrompts[m].Prompt = lastChange.prompts[m].Prompt

\* C5 (amended): a prompt file edited, the reload successful: the same prompts are
\* registered, each other prompt keeps its name and description, and it keeps its
\* arguments unless its template includes the edited file, directly or through
\* other templates.
C5_EditChangesDependents ==
    EditProcessed =>
        LET old == lastChange.prompts
            tmpl == ParseDir(promptsDir).tmpl
        IN  /\ DOMAIN mcpPrompts = DOMAIN old
            /\ \A m \in DOMAIN old \ {PromptOf(lastChange.name)} :
                    /\ mcpPrompts[m].Prompt.Name = old[m].Prompt.Name
                    /\ mcpPrompts[m].Prompt.Description = old[m].Prompt.Description
                    /\ mcpPrompts[m].Prompt.Arguments # old[m].Prompt.Arguments
                            => lastChange.name \in Reached(tmpl, Append(m, templateExt))

C5_Witness ==
    /\ EditProcessed /\ ArgumentsChanged
    /\ \E m \in DOMAIN mcpPrompts \ {PromptOf(lastChange.name)} :
            mcpPrompts[m].Prompt = lastChange.prompts[m].Prompt
    /\ lastChange.name = FileNameB

StartupFails == loadServerPrompts(promptsDir, environ).err # NoError

\* C6: when the reload inside NewPromptsServer fails, NewPromptsServer returns the
\* error and no server: no prompt is registered, the watcher is closed, and neither
\* goroutine ever runs.
C6_StartupFailure ==
    /\ (mainPc # "start" /\ changes = 0 /\ StartupFails) => mainPc = "failed"
    /\ mainPc = "failed" =>
            /\ IsError(lastErr)
            /\ mcpPrompts = NoPrompts /\ registeredPrompts = <<>>
            /\ ~watcherOpen
            /\ watcherPc = "off" /\ listenerPc = "off"

C6_Witness == mainPc = "failed" /\ lastErr.kind = "extract prompt arguments"

\* a reloadPrompts call of the watcher loop returns an error in this step
ReloadFailsNow ==
    /\ WatcherReload \/ WatcherLoad
    /\ IsError(lastErr') /\ watcherPc' \notin {"parsed", "loaded"}

\* the watcher loop receives a template event in this step
TemplateEventTaken ==
    /\ WatcherAtSelect /\ events # <<>> /\ HasSuffix(Head(events), templateExt)
    /\ events' = Tail(events)

\* C7: a reload that fails after startup leaves the watcher loop waiting for events
\* and the server running; the loop ends only when the context is cancelled; and a
\* template event received after a failure starts a reload again.
C7_WatcherSurvivesFailure ==
    /\ [](watcherPc = "exited" => cancelled)
    /\ [][ReloadFailsNow =>
            /\ watcherPc' = "select"
            /\ UNCHANGED <<mainPc, listenerPc, watcherOpen, cancelled>>]_vars
    /\ [][(IsError(lastErr) /\ TemplateEventTaken) =>
            /\ before' = [prompts |-> mcpPrompts, registered |-> registeredPrompts]
            /\ watcherPc' = "parsed" \/ lastErr'.kind = "parse all prompts"]_vars

C7_Witness == IsError(lastErr) /\ watcherPc = "parsed" /\ ~cancelled

DirBuilds == loadServerPrompts(promptsDir, environ).err = NoError

\* C8: when NewPromptsServer has returned a server, the context is never cancelled
\* and the directory comes to rest in a state where every template builds, the
\* registry is, from some moment on, the one built from that directory.
C8_Converges ==
    (<>(mainPc = "created") /\ []~cancelled /\ <>[]DirBuilds) => <>[]InSync

C8_Witness ==
    /\ changes = MaxChanges /\ ~cancelled /\ EventsProcessed /\ InSync
    /\ lastChange.op # "none" /\ ~lastChange.synced
    /\ mcpPrompts # lastChange.prompts

----------------------------------------------------------------------------
(* Claims about the set the resolver returns (checked under SpecArgs).      *)

\* letter-case folding of the identifiers, written out for the claims
Fold(s) ==
    CASE s = "X" -> "x"
      [] s = "Date" -> "date"
      [] s = "isPremium" -> "ispremium"
      [] OTHER -> s

RECURSIVE FieldsIn(_), FieldsInList(_)

\* the variables a tree references by a field: folded names, the built-in date left out
FieldsIn(node) ==
    CASE node = NilNode -> {}
      [] node.kind = "field" -> {Fold(node.ident)} \ {"date"}
      [] node.kind = "action" -> FieldsIn(node.pipe)
      [] node.kind = "pipe" -> FieldsInList(node.cmds)
      [] node.kind = "command" -> FieldsInList(node.args)
      [] node.kind = "list" -> FieldsInList(node.nodes)
      [] node.kind \in {"if", "range", "with"} ->
            FieldsIn(node.pipe) \cup FieldsIn(node.list) \cup FieldsIn(node.elseList)
      [] node.kind = "template" -> FieldsIn(node.pipe)
      [] OTHER -> {}

FieldsInList(nodes) ==
    IF nodes = <<>> THEN {} ELSE FieldsIn(Head(nodes)) \cup FieldsInList(Tail(nodes))

RECURSIVE BranchNodes(_), BranchNodesList(_)

\* the if, range and with constructs of a tree
BranchNodes(node) ==
    CASE node = NilNode -> {}
      [] node.kind = "list" -> BranchNodesList(node.nodes)
      [] node.kind \in {"if", "range", "with"} ->
            {node} \cup BranchNodes(node.list) \cup BranchNodes(node.elseList)
      [] OTHER -> {}

BranchNodesList(nodes) ==
    IF nodes = <<>> THEN {} ELSE BranchNodes(Head(nodes)) \cup BranchNodesList(Tail(nodes))

\* the extraction returned a list
ArgsReturned == WalkDone /\ wResult.err = NoError

\* the template asked for and the templates it reaches through template calls
ReachedFromTarget == {WalkTarget} \cup Reached(wTmpl, WalkTarget)

MainBody(pieces) == ListNode(<<TextNode>> \o pieces)

C12_ReachedPartialsOnly ==
    ArgsReturned =>
        LET own == UNION {FieldsIn(wTmpl[n]) : n \in ReachedFromTarget}
        IN  /\ \A n \in DOMAIN wTmpl \ ReachedFromTarget :
                    \A v \in FieldsIn(wTmpl[n]) \ own : v \notin wResult.args
            /\ \A n \in ReachedFromTarget : FieldsIn(wTmpl[n]) \subseteq wResult.args

\* a reaches b through c, and main.tmpl, which a does not reach, references c, t and e
C12_Witness ==
    /\ ArgsReturned
    /\ WalkTarget = FileA
    /\ FileC \in Callees(wTmpl, FileA) /\ FileB \in Callees(wTmpl, FileC)
    /\ FileB \notin Callees(wTmpl, FileA)
    /\ FieldsIn(wTmpl[FileB]) # {}
    /\ FieldsIn(wTmpl[FileB]) \subseteq wResult.args
    /\ FieldsIn(wTmpl[FileMain]) = {"c", "t", "e"}
    /\ wResult.args \cap {"c", "t", "e"} = {}

\* C19: when the extraction returns a list, the variables of the controlling expression
\* and of both branches of every if, range and with are in it, for the constructs of
\* the prompt and of every template it reaches.
C19_BranchVariables ==
    ArgsReturned =>
        \A n \in ReachedFromTarget :
            \A node \in BranchNodes(wTmpl[n]) :
                FieldsIn(node.pipe) \cup FieldsIn(node.list) \cup FieldsIn(node.elseList)
                    \subseteq wResult.args

\* main.tmpl holds an if with an else branch and calls a, which holds a range with an
\* else branch
C19_Witness ==
    /\ ArgsReturned
    /\ WalkTarget = FileMain
    /\ \E node \in BranchNodes(wTmpl[FileMain]) :
            node.kind = "if" /\ FieldsIn(node.elseList) = {"e"}
    /\ FileA \in Callees(wTmpl, FileMain)
    /\ \E node \in BranchNodes(wTmpl[FileA]) :
            node.kind = "range" /\ FieldsIn(node.elseList) = {"n"}
    /\ {"c", "t", "e", "y", "n"} \subseteq wResult.args

\* C20: a template call that names no template of the set does not make the extraction
\* fail; the list holds the variables of the prompt and of the templates it reaches.
C20_UnresolvedIgnored ==
    (WalkDone /\ ~AllResolve(wTmpl, WalkTarget) /\ ~CycleReachable(wTmpl, WalkTarget)) =>
        /\ wResult.err = NoError
        /\ wResult.args = UNION {FieldsIn(wTmpl[n]) : n \in ReachedFromTarget}

----------------------------------------------------------------------------
(* Claims about the data map of a render (checked under SpecRender).        *)

\* upper-casing of the variable names, written out for the claims
Upper(s) ==
    CASE s = "x" -> "X"
      [] s = "y" -> "Y"
      [] s = "z" -> "Z"
      [] s = "w" -> "W"
      [] s = "ispremium" -> "ISPREMIUM"
      [] OTHER -> s

\* the caller strings that are boolean, number, null, array or object literals
Literals == {"true", "false", "42", "null", "[1, 2]", "{\"a\": 1}"}

LiteralValue(s) ==
    CASE s = "true" -> BoolValue(TRUE)
      [] s = "false" -> BoolValue(FALSE)
      [] s = "42" -> NumberValue(42)
      [] s = "null" -> NullValue
      [] s = "[1, 2]" -> ArrayValue(<<NumberValue(1), NumberValue(2)>>)
      [] OTHER -> ObjectValue([a |-> NumberValue(1)])

\* the caller strings that are a string in double quotes, and the string inside
QuotedStrings == {"\"Alice\""}

Unquoted(s) == "Alice"

\* what a caller string stands for in the data map under a decoding mode
CallerValue(s, decoding) ==
    IF decoding /\ s \in Literals THEN LiteralValue(s)
    ELSE IF decoding /\ s \in QuotedStrings THEN StringValue(Unquoted(s))
    ELSE StringValue(s)

\* the truth of a value in {{if}}: text/template's rule for the kinds of the model
Truthy(value) ==
    CASE "str" \in DOMAIN value -> value.str # ""
      [] "bool" \in DOMAIN value -> value.bool
      [] "num" \in DOMAIN value -> value.num # 0
      [] "items" \in DOMAIN value -> value.items # <<>>
      [] "fields" \in DOMAIN value -> DOMAIN value.fields # {}
      [] OTHER -> FALSE

\* a handler or a render command built its data map
DataBuilt == response.kind \in {"get", "render"} /\ response.ran

\* the variables of the rendered template and of the templates it reaches
RequiredOf(file) ==
    LET tmpl == ParseDir(promptsDir).tmpl
    IN  UNION {FieldsIn(tmpl[n]) : n \in {file} \cup Reached(tmpl, file)}

\* C13: in the data map of the served handler and of the render command, a name the
\* caller supplied holds the caller's value (also a name with an environment default,
\* also date); a required variable the caller did not supply and whose upper-case name
\* is in the environment holds that default; the key date is always present.
C13_LayeredData ==
    DataBuilt =>
        LET data == response.data
            args == response.arguments
        IN  /\ \A n \in DOMAIN args :
                    n \in DOMAIN data /\ data[n] = CallerValue(args[n], response.enableJSONArgs)
            /\ \A n \in RequiredOf(WithExt(response.name)) \ DOMAIN args :
                    Upper(n) \in DOMAIN environ =>
                        n \in DOMAIN data /\ data[n] = StringValue(environ[Upper(n)])
            /\ "date" \in DOMAIN data
            /\ "date" \notin DOMAIN args => data["date"] = StringValue(Now)

\* a prompts/get whose caller supplies y, which has an environment default, and date
C13_Witness ==
    /\ DataBuilt /\ response.kind = "get"
    /\ "y" \in DOMAIN mcpPrompts[response.name].Handler.envArgs
    /\ DOMAIN response.arguments = {"y", "date"}
    /\ response.arguments["y"] = "John"
    /\ response.data["y"] = StringValue("John")
    /\ response.data["date"] = StringValue(response.arguments["date"])

\* C14 as stated: with decoding enabled a boolean, number, null, array or object
\* literal is replaced by its decoded value and every other caller string, a string
\* in double quotes included, is stored unchanged.
C14_AsStated ==
    (DataBuilt /\ response.enableJSONArgs) =>
        \A n \in DOMAIN response.arguments :
            response.data[n] = IF response.arguments[n] \in Literals
                               THEN LiteralValue(response.arguments[n])
                               ELSE StringValue(response.arguments[n])

\* C14: with decoding enabled a boolean, number, null, array or object literal is
\* replaced by its decoded value, a string in double quotes by the string inside the
\* quotes, and every caller string that is no valid JSON is stored unchanged.
C14_DecodedValues ==
    (DataBuilt /\ response.enableJSONArgs) =>
        \A n \in DOMAIN response.arguments :
            response.data[n] =
                IF response.arguments[n] \in Literals
                THEN LiteralValue(response.arguments[n])
                ELSE IF response.arguments[n] \in QuotedStrings
                THEN StringValue(Unquoted(response.arguments[n]))
                ELSE StringValue(response.arguments[n])

\* a render with decoding enabled: x is the literal true, y is invalid JSON
C14_Witness ==
    /\ DataBuilt /\ response.kind = "render" /\ response.enableJSONArgs
    /\ DOMAIN response.arguments = {"x", "y"}
    /\ response.arguments["x"] = "true" /\ response.data["x"] = BoolValue(TRUE)
    /\ response.arguments["y"] = "{name: \"Alice\"}"
    /\ response.data["y"] = StringValue("{name: \"Alice\"}")

\* C15: with decoding disabled every argument of the request or render call is stored
\* as exactly the string the caller sent, so false is a non-empty string that counts
\* as true.
C15_StringsOnly ==
    (DataBuilt /\ ~response.enableJSONArgs) =>
        \A n \in DOMAIN response.arguments :
            /\ response.data[n] = StringValue(response.arguments[n])
            /\ Truthy(response.data[n])

\* a prompts/get on a server with decoding disabled: x is false, y is 42
C15_Witness ==
    /\ DataBuilt /\ response.kind = "get" /\ ~enableJSONArgs
    /\ DOMAIN response.arguments = {"x", "y"}
    /\ response.arguments["x"] = "false" /\ response.data["x"] = StringValue("false")
    /\ response.arguments["y"] = "42" /\ response.data["y"] = StringValue("42")

----------------------------------------------------------------------------
(* Claims about the registered prompts (checked under Spec).                *)

\* C16: for every registered prompt, the variables with an environment default and
\* the advertised arguments are disjoint and together are exactly the variables the
\* resolver finds for its template; a variable is a default exactly when the
\* environment holds its upper-case name, and the default is that variable's value.
C16_EnvSplit ==
    \A name \in DOMAIN mcpPrompts :
        LET handler == mcpPrompts[name].Handler
            defaults == DOMAIN handler.envArgs
            advertised == mcpPrompts[name].Prompt.Arguments
            found == ExtractPromptArgumentsFromTemplate(handler.tmpl, handler.templateName)
        IN  /\ defaults \cap advertised = {}
            /\ defaults \cup advertised = found.args
            /\ \A arg \in defaults :
                    Upper(arg) \in DOMAIN environ /\ handler.envArgs[arg] = environ[Upper(arg)]
            /\ \A arg \in advertised : Upper(arg) \notin DOMAIN environ

\* a registered prompt with a variable of each kind
C16_Witness ==
    \E name \in DOMAIN mcpPrompts :
        /\ DOMAIN mcpPrompts[name].Handler.envArgs # {}
        /\ mcpPrompts[name].Prompt.Arguments # {}

\* a file name or a prompt name that starts with the underscore
IsPartial(name) == name # <<>> /\ name[1] = "_"

\* the names a caller can use for the partials of the model
PartialNames == {<<"_", "p">>, <<"_", "p", ".tmpl">>}

\* C17: in every reachable state no registered prompt, and so no listed prompt, has
\* the name of a partial; over the directory as it is, the list command prints no
\* partial, the render and validate commands answer "template not found" for the
\* name of a partial, and validating every template validates no partial by name.
C17_PartialsNotServed ==
    /\ \A name \in DOMAIN mcpPrompts :
            ~IsPartial(name) /\ ~IsPartial(mcpPrompts[name].Handler.templateName)
    /\ \A name \in DOMAIN HandleListPrompts(mcpPrompts) : ~IsPartial(name)
    /\ \A i \in 1..Len(listTemplates(promptsDir)) : ~IsPartial(listTemplates(promptsDir)[i])
    /\ \A name \in PartialNames :
            /\ ~renderTemplate(promptsDir, environ, name, NoArguments, enableJSONArgs).ran
            /\ renderTemplate(promptsDir, environ, name, NoArguments, enableJSONArgs).err.kind
                    = "template not found"
            /\ validateTemplates(promptsDir, name).err.kind = "template not found"
    /\ \A i \in 1..Len(validateTemplates(promptsDir, <<>>).lines) :
            ~IsPartial(validateTemplates(promptsDir, <<>>).lines[i].name)

\* the watcher has reloaded a directory that holds a partial and two prompts using it
C17_Witness ==
    /\ changes > 0 /\ Quiescent /\ InSync
    /\ <<"_", "p", ".tmpl">> \in DOMAIN promptsDir
    /\ DOMAIN mcpPrompts = {<<"a">>, <<"b">>}
    /\ Len(validateTemplates(promptsDir, <<>>).lines) = 2

----------------------------------------------------------------------------
(* Claims about the shutdown (checked under SpecStop).                      *)

\* ServeStdio has returned only if both goroutines have finished
BothJoined == mainPc = "returned" => (watcherPc = "exited" /\ listenerPc = "done")

\* C18 as stated: once the context is cancelled, the step that takes the watcher loop
\* out of its wait is its exit, and ServeStdio returns only after both goroutines
\* have finished.
C18_AsStated ==
    /\ [][(cancelled /\ watcherPc = "select" /\ watcherPc' # "select")
            => watcherPc' = "exited"]_vars
    /\ []BothJoined

\* C18: once the context is cancelled, the watcher loop and the protocol-serving loop
\* both exit and ServeStdio returns, the watcher loop possibly after handling events
\* that were queued before; ServeStdio never returns while either goroutine is still
\* running.
C18_CancelJoins ==
    /\ cancelled ~> (mainPc = "returned" /\ watcherPc = "exited" /\ listenerPc = "done")
    /\ []BothJoined

\* ServeStdio has returned after a cancellation, with both goroutines finished, on a
\* directory that changed while it was served
C18_Witness ==
    /\ mainPc = "returned" /\ cancelled
    /\ watcherPc = "exited" /\ listenerPc = "done"
    /\ changes > 0

----------------------------------------------------------------------------
(* Claims about variables and dict calls (checked under SpecArgs).          *)

RECURSIVE PipesIn(_), PipesInList(_)

\* the pipelines of a tree
PipesIn(node) ==
    CASE node = NilNode -> {}
      [] node.kind = "pipe" -> {node}
      [] node.kind = "action" -> PipesIn(node.pipe)
      [] node.kind = "list" -> PipesInList(node.nodes)
      [] node.kind \in {"if", "range", "with"} ->
            PipesIn(node.pipe) \cup PipesIn(node.list) \cup PipesIn(node.elseList)
      [] node.kind = "template" -> PipesIn(node.pipe)
      [] OTHER -> {}

PipesInList(nodes) ==
    IF nodes = <<>> THEN {} ELSE PipesIn(Head(nodes)) \cup PipesInList(Tail(nodes))

\* the pipelines of the templates the extraction walked
ReachedPipes == UNION {PipesIn(wTmpl[n]) : n \in ReachedFromTarget}

\* the field references of the templates the extraction walked
ReachedFields == UNION {FieldsIn(wTmpl[n]) : n \in ReachedFromTarget}

\* the names of a variable node: the variable without its $ and the fields after it
NamesOf(variable) == {variable.ident[i] : i \in 2..Len(variable.ident)}

\* the variable nodes a pipeline declares or assigns, and those its commands reference
VariablesOf(pipe) ==
    {pipe.Decl[i] : i \in 1..Len(pipe.Decl)} \cup
    UNION {{pipe.cmds[i].args[j] : j \in {k \in 1..Len(pipe.cmds[i].args) :
                                            pipe.cmds[i].args[k].kind = "variable"}} :
           i \in 1..Len(pipe.cmds)}

\* C21: when the extraction returns a list, no name bound by $x := expr, $x = expr
\* or range $i, $v := expr is in it, also when $x or $x.field is referenced later (the
\* field after the variable is not in it either), and the field references inside
\* the bound expression are in it.
C21_BoundNames ==
    ArgsReturned =>
        \A pipe \in ReachedPipes :
            /\ \A variable \in VariablesOf(pipe) :
                    \A name \in NamesOf(variable) \ ReachedFields : name \notin wResult.args
            /\ pipe.Decl # <<>> => FieldsInList(pipe.cmds) \subseteq wResult.args

\* main.tmpl holds the range over .items and the if with $q := .first, $q = .second
C21_Witness ==
    /\ ArgsReturned
    /\ WalkTarget = FileMain
    /\ \E pipe \in ReachedPipes : Len(pipe.Decl) = 2
    /\ \E pipe \in ReachedPipes : pipe.IsAssign
    /\ wResult.args = {"items", "c", "first", "second"}

\* the string arguments of the commands of a pipeline: the keys of a dict call
KeysOf(pipe) ==
    UNION {{pipe.cmds[i].args[j].text : j \in {k \in 1..Len(pipe.cmds[i].args) :
                                                 pipe.cmds[i].args[k].kind = "string"}} :
           i \in 1..Len(pipe.cmds)}

\* the pipelines of the template calls of a tree that pass a dict
DictCalls == {pipe \in ReachedPipes : KeysOf(pipe) # {}}

\* C22: when the extraction returns a list, the source field references of every
\* dict call of a walked template are in it, and a key of the dict is in it exactly
\* when a walked template references a field of that name.
C22_DictSources ==
    ArgsReturned =>
        \A pipe \in DictCalls :
            /\ FieldsInList(pipe.cmds) \subseteq wResult.args
            /\ \A key \in KeysOf(pipe) : key \in wResult.args <=> key \in ReachedFields

\* main.tmpl calls b with dict "i" .arg "k" .val, and b references .i: the key i is in
\* the list for the field of b, the key k is not
C22_Witness ==
    /\ ArgsReturned
    /\ WalkTarget = FileMain
    /\ wTmpl[FileMain] = MainBody(<<TemplateNode(<<"b">>, DictPipe)>>)
    /\ "i" \in FieldsIn(wTmpl[FileB])
    /\ wResult.args = {"arg", "val", "w", "i", "o"}

----------------------------------------------------------------------------
(* Claims about the work of one extraction (checked under SpecWalk).        *)

\* the roots of the referenced templates the finished extraction recursed into
WalkedBodies ==
    walkNodes(wTmpl[WalkTarget], WalkState({}, {}, NoError), wTmpl, <<>>).walked

\* C27: during one extraction the body of each template is walked as a referenced
\* template at most once, however many template calls name it and whether they name
\* it with or without the extension.
C27_WalkedOnce ==
    WalkDone => \A n \in WalkTemplates : Count(WalkedBodies, wTmpl[n]) <= 1

----------------------------------------------------------------------------
(* Claims about the calls of reloadPrompts (checked under Spec).            *)

\* the path of an event ends with the template extension
HasExtension(eventName) == eventName # <<>> /\ eventName[Len(eventName)] = ".tmpl"

\* the watcher loop receives an event: the queue loses its head
Received == events # <<>> /\ events' = Tail(events)

\* C23: the queue of events loses only its head; the step in which the watcher loop
\* receives an event whose path ends with the template extension (a partial's file
\* included) is one call of reloadPrompts, and no other step of the watcher loop
\* begins a call: not an event with another path, not a watcher error.
C23_OneReloadPerEvent ==
    [][/\ Len(events') < Len(events) => Received
       /\ (Received /\ HasExtension(Head(events))) => WatcherReload
       /\ WatcherReload => (Received /\ HasExtension(Head(events)))
       /\ (Received /\ ~HasExtension(Head(events))) =>
                UNCHANGED <<reloadVars, promptsDir>>]_vars

\* the watcher loop has received the events of two changes, the last one of the
\* partial _p.tmpl, and the reload for it has changed the registry
C23_Witness ==
    /\ changes = 2 /\ Quiescent /\ InSync
    /\ lastChange.op \in {"add", "edit"} /\ lastChange.name = <<"_", "p", ".tmpl">>
    /\ before.prompts # mcpPrompts

\* a call of reloadPrompts by the watcher loop is in progress
Reloading == watcherPc \in {"parsed", "loaded", "deleted"}

\* C24: the watcher loop runs only after the reload of NewPromptsServer has finished,
\* and a call of reloadPrompts begins only when no call is in progress: an event that
\* arrives during a reload waits in the queue until that reload has returned.
C24_OneReloadAtATime ==
    /\ [](watcherPc # "off" => (lastErr # NoReload /\ mainPc \notin {"start", "created", "failed"}))
    /\ [][WatcherReload => ~Reloading]_vars
    /\ [][Reloading => Len(events') >= Len(events)]_vars

\* a template event waits in the queue while the reload for an earlier event runs
C24_Witness ==
    /\ Reloading
    /\ events # <<>> /\ HasExtension(Head(events))

----------------------------------------------------------------------------
(* Claims about a render during a reload (checked under SpecGet).           *)

\* what a prompt answers when its body, its partials, its description and its
\* defaults are the ones one reload has put into the handler
GenerationRender(handler) ==
    LET data == [k \in {"date"} \cup DOMAIN handler.envArgs |->
                    IF k \in DOMAIN handler.envArgs THEN StringValue(handler.envArgs[k])
                    ELSE StringValue(Now)]
        res == ExecuteTemplate(handler.tmpl, handler.templateName, data)
    IN  [description |-> handler.description, text |-> res.out, err |-> res.err]

\* C25: the answer of a prompts/get whose handler was called is, in description and
\* text, the answer of the generation of the handler the request looked up: the
\* template set, the description and the defaults one reload has built, also when
\* reloads have run between the lookup of the handler and its call.
C25_OneGeneration ==
    response.kind = "served" => response.result = GenerationRender(response.handler)

\* a reload has replaced the prompt between the lookup and the call of its handler,
\* and the answer is not the one the registered prompt gives now
C25_Witness ==
    /\ response.kind = "served"
    /\ response.name \in DOMAIN mcpPrompts
    /\ mcpPrompts[response.name].Handler # response.handler
    /\ response.result.err = NoError
    /\ response.result # CallHandler(mcpPrompts[response.name].Handler, NoArguments)

----------------------------------------------------------------------------
(* Claims about the listing of the CLI (checked under SpecRender).          *)

\* the variable names of the files in their sorted order
SortedVariableNames == <<"w", "x", "y", "z">>

\* the first parts of the names of the files in their sorted order
SortedFirstParts == <<"_", "a", "b", "notes">>

PlaceIn(sorted, s) == CHOOSE i \in 1..Len(sorted) : sorted[i] = s

IsSortedBy(sorted, seq) ==
    \A i, j \in 1..Len(seq) : i < j => PlaceIn(sorted, seq[i]) < PlaceIn(sorted, seq[j])

\* C26: the list command sorts what it prints: list --verbose prints the templates
\* in sorted order and the variables of each template in sorted order, whatever the
\* order in which the resolver returned them.
C26_SortedListing ==
    response.kind = "cli list verbose" =>
        /\ IsSortedBy(SortedFirstParts,
                      [i \in 1..Len(response.lines) |-> response.lines[i].name[1]])
        /\ \A i \in 1..Len(response.lines) :
              IsSortedBy(SortedVariableNames, response.lines[i].variables)

----------------------------------------------------------------------------
(* Claims about the end of the protocol-serving loop (checked under         *)
(* SpecStop).                                                               *)

\* C28: ServeStdio always returns once the protocol-serving loop has ended: when
\* Listen returns by itself while the context is not cancelled, ServeStdio eventually
\* returns instead of waiting forever for the watcher goroutine.
C28_ReturnsAfterListen ==
    (listenerPc = "done" /\ ~cancelled) ~> (mainPc = "returned")

----------------------------------------------------------------------------
(* Claims about the names reloadPrompts remembers (checked under Spec).     *)

RegisteredNames == {registeredPrompts[i] : i \in 1..Len(registeredPrompts)}

\* C30: after every call of reloadPrompts, successful or failed, ps.registeredPrompts
\* holds exactly the names of the prompts registered in the MCP server, so the next
\* successful reload deletes every prompt of the generation before it: when it
\* returns, the registry holds the prompts it built and no others.
C30_RegisteredNames ==
    /\ [](~Reloading => DOMAIN mcpPrompts = RegisteredNames)
    /\ [][(watcherPc = "deleted" /\ watcherPc' # "deleted") =>
            DOMAIN mcpPrompts' =
                {newServerPrompts[i].Prompt.Name : i \in 1..Len(newServerPrompts)}]_vars

\* a successful reload after the removal of a file has returned: a prompt of the
\* generation before it is gone and another one is registered and remembered
C30_Witness ==
    /\ Quiescent /\ lastErr = NoError
    /\ lastChange.op = "remove"
    /\ \E n \in DOMAIN lastChange.prompts : n \notin DOMAIN mcpPrompts
    /\ mcpPrompts # NoPrompts
    /\ DOMAIN mcpPrompts = RegisteredNames

----------------------------------------------------------------------------
(* Claims about the use of the reported names (checked under SpecRender).   *)

\* the node is {{.field}}
IsFieldAction(node) ==
    node.kind = "action" /\ node.pipe.cmds[1].args[1].kind = "field"

\* the names the resolver reported for the served prompt: the arguments the prompt
\* lists and the names whose environment default the handler holds
ReportedNames(served) == served.Prompt.Arguments \cup DOMAIN served.Handler.envArgs

\* C29: every name the resolver reports for a prompt can be used to supply that
\* variable: a value the data map of the handler holds under a reported name n (from
\* the caller or from the environment default) is what a field reference of the
\* template that folds to n prints, also when the template writes the field with
\* upper-case letters.
C29_ReportedNamesSupply ==
    (response.kind = "get" /\ response.ran /\ response.result.err = NoError) =>
        LET served == mcpPrompts[response.name]
            nodes == promptsDir[Append(response.name, templateExt)].root.nodes
        IN  \A i \in 1..Len(nodes) :
                (/\ \A j \in 1..i : nodes[j].kind # "template"
                 /\ IsFieldAction(nodes[i])
                 /\ Fold(nodes[i].pipe.cmds[1].args[1].ident) \in ReportedNames(served)
                 /\ Fold(nodes[i].pipe.cmds[1].args[1].ident) \in DOMAIN response.data)
                => response.result.text[i] =
                       Printed(response.data[Fold(nodes[i].pipe.cmds[1].args[1].ident)])

============================================================================
